---- MODULE Spec2Model ----
(***************************************************************************)
(* Problepo: the per-IP fixed-window rate limiter of the Express server,   *)
(* the rate-limited routes behind it (/api/predict, /api/text-to-speech,   *)
(* /api/analyze),                                                          *)
(* the prediction synthesizer (local templates, Hugging Face, OpenAI,      *)
(* DeepSeek), the dependency status report (/api/status, getApiStatus),    *)
(* the browser client (the throttle of api.ts, App.handleSubmit) and the   *)
(* SpeechInputField component.                                             *)
(*                                                                         *)
(* Time is the value of Date.now() in milliseconds since the limiter was   *)
(* constructed.  One call of a synchronous function reads one instant.     *)
(***************************************************************************)
EXTENDS Integers, Sequences, FiniteSets, TLC

VARIABLES
    now,            \* Date.now(), ms since the construction of rateLimiter
    requestCounts,  \* rateLimiter.requestCounts: ip -> count (0 = no entry)
    resetTime,      \* rateLimiter.resetTime
    admitted,       \* history: calls of each ip passed to next() since the last clear
    last,           \* history: the rateLimiter.check call made at this instant, or NoCall
    snapshot,       \* which server snapshot is running
    env,            \* process.env: variable name -> "unset" | "placeholder" | "set"
    req,            \* the requests in flight: request id -> request record
    sta,            \* the status report being assembled
    cli,            \* the browser client: the throttle of api.ts and the App component
    gen,            \* the call of the template synthesizer under study: request and result
    tmr,            \* the setInterval timer of the OpenAI snapshot, and history since it fired
    hist,           \* history of the limiter: the last denial of the observed ip, the interval observed
    twin,           \* a second limiter that receives the same calls of one ip
    sp              \* the SpeechInputField component and its timers

vars == <<now, requestCounts, resetTime, admitted, last, snapshot, env, req, sta, cli, gen, tmr, hist, twin, sp>>

-----------------------------------------------------------------------------
(* Program constants *)

windowMs == 60000
maxRequests == 10

(* Bounds of the model *)

TickMs == 7500          \* the clock is observed every TickMs milliseconds
MaxTime == 135000       \* the clock stops after two windows and a bit

Ips == {"ipA", "ipB"}

-----------------------------------------------------------------------------
(* Math.ceil(a / b) for an integer a and b > 0 *)

Math_ceil_floor(a, b) == a \div b

Math_ceil(a, b) == -((-a) \div b)

NoCall == [ip |-> "none"]

(* The identifier whose calls the histories below follow *)
Observed == "ipA"

(* History of the limiter.  retryAt: the instant the last answer to the     *)
(* observed identifier, a 429, told it to wait for (the instant of the call *)
(* plus retryAfter seconds), -1 when its last call was admitted; found:     *)
(* retryAt as the identifier's call of this instant found it.  start: the   *)
(* first instant of the interval of length windowMs under observation (-1:  *)
(* not begun, -2: over), count: the identifier's calls admitted in it.      *)
NoHist == [retryAt |-> -1, found |-> -1, start |-> -1, count |-> 0]

(* A second limiter, constructed at the same instant as the first: its      *)
(* counts and resetTime; rtBefore and status: the resetTime the last call   *)
(* of the observed ip found there and the answer it got (-1: no such call). *)
NoTwin ==
    [counts |-> [i \in Ips |-> 0], resetTime |-> 0 + 60 * 1000, rtBefore |-> -1,
     status |-> -1]

(* SpeechInputField after its first render.  isListening, errorMessage and  *)
(* isProcessing are the component's state, listening and transcript the     *)
(* values of the useSpeechRecognition hook (the transcript effect hands a   *)
(* non-empty one to onChange), startTimeoutRef what the ref holds: "null", a *)
(* timer that is pending ("live") or one that has fired or was cleared      *)
(* ("stale").  orphans counts the pending start timers the ref no longer    *)
(* names, processing the pending 800 ms timers.  pendL and pendC: the       *)
(* effect on [listening] and the cleanup of the effect on [isListening] of  *)
(* the last commit have not run yet.  History: stopped (handleStopListening *)
(* ran and no start was requested since), cancelled (that stop cleared a    *)
(* pending start timer), fired (startListening was invoked at least once),  *)
(* late (startListening was invoked while stopped), op (the last step).     *)
IdleSp ==
    [isListening |-> FALSE, errorMessage |-> "", isProcessing |-> FALSE,
     listening |-> FALSE, transcript |-> "", startTimeoutRef |-> "null", orphans |-> 0,
     processing |-> 0, pendL |-> FALSE, pendC |-> FALSE,
     stopped |-> FALSE, cancelled |-> FALSE, fired |-> FALSE, late |-> FALSE,
     op |-> "none"]

(* The timer of setInterval: when it last fired (0: when it was set), and   *)
(* history: the calls of each ip admitted since then and the instant of the *)
(* first of them (-1: none).                                                *)
NoTimer ==
    [lastFire |-> 0, sinceFire |-> [i \in Ips |-> 0], firstAdmit |-> [i \in Ips |-> -1]]

setInterval_callback_keep(counts, t) ==
    [counts |-> counts, resetTime |-> t + windowMs]

(* the callback of setInterval: rateLimiter.requestCounts.clear();          *)
(* rateLimiter.resetTime = Date.now() + rateLimiter.windowMs                *)
setInterval_callback(counts, t) ==
    [counts |-> [i \in Ips |-> 0], resetTime |-> t + windowMs]

(* rateLimiter.check(req, res, next) for a request of `ip` at instant t, on  *)
(* the limiter state (counts, rt).  status 0 stands for next() being called. *)

rateLimiter_check_gt(counts, rt, t, ip) ==
    LET due == t > rt
        c1  == IF due THEN [i \in Ips |-> 0] ELSE counts
        rt1 == IF due THEN t + windowMs ELSE rt
        currentCount == c1[ip]
    IN  IF currentCount > maxRequests
        THEN [counts |-> c1, resetTime |-> rt1, cleared |-> due, status |-> 429,
              retryAfter |-> Math_ceil(rt1 - t, 1000)]
        ELSE [counts |-> [c1 EXCEPT ![ip] = currentCount + 1], resetTime |-> rt1,
              cleared |-> due, status |-> 0, retryAfter |-> 0]

rateLimiter_check_keep(counts, rt, t, ip) ==
    LET due == t > rt
        rt1 == IF due THEN t + windowMs ELSE rt
        currentCount == counts[ip]
    IN  IF currentCount >= maxRequests
        THEN [counts |-> counts, resetTime |-> rt1, cleared |-> FALSE, status |-> 429,
              retryAfter |-> Math_ceil(rt1 - t, 1000)]
        ELSE [counts |-> [counts EXCEPT ![ip] = currentCount + 1], resetTime |-> rt1,
              cleared |-> FALSE, status |-> 0, retryAfter |-> 0]

rateLimiter_check_count_denied(counts, rt, t, ip) ==
    LET due == t > rt
        c1  == IF due THEN [i \in Ips |-> 0] ELSE counts
        rt1 == IF due THEN t + windowMs ELSE rt
        currentCount == c1[ip]
    IN  IF currentCount >= maxRequests
        THEN [counts |-> [c1 EXCEPT ![ip] = currentCount + 1], resetTime |-> rt1,
              cleared |-> due, status |-> 429, retryAfter |-> Math_ceil(rt1 - t, 1000)]
        ELSE [counts |-> [c1 EXCEPT ![ip] = currentCount + 1], resetTime |-> rt1,
              cleared |-> due, status |-> 0, retryAfter |-> 0]

rateLimiter_check_lost(counts, rt, t, ip) ==
    LET due == t > rt
        c1  == IF due THEN [i \in Ips |-> 0] ELSE counts
        rt1 == IF due THEN t + windowMs ELSE rt
        currentCount == IF c1[ip] > 0 THEN c1[ip] - 1 ELSE 0
    IN  IF currentCount >= maxRequests
        THEN [counts |-> c1, resetTime |-> rt1, cleared |-> due, status |-> 429,
              retryAfter |-> Math_ceil(rt1 - t, 1000)]
        ELSE [counts |-> [c1 EXCEPT ![ip] = currentCount + 1], resetTime |-> rt1,
              cleared |-> due, status |-> 0, retryAfter |-> 0]

rateLimiter_check_ge(counts, rt, t, ip) ==
    LET due == t >= rt
        c1  == IF due THEN [i \in Ips |-> 0] ELSE counts
        rt1 == IF due THEN t + windowMs ELSE rt
        currentCount == c1[ip]
    IN  IF currentCount >= maxRequests
        THEN [counts |-> c1, resetTime |-> rt1, cleared |-> due, status |-> 429,
              retryAfter |-> Math_ceil(rt1 - t, 1000)]
        ELSE [counts |-> [c1 EXCEPT ![ip] = currentCount + 1], resetTime |-> rt1,
              cleared |-> due, status |-> 0, retryAfter |-> 0]

rateLimiter_check_global(counts, rt, t, ip) ==
    LET due == t > rt
        c1  == IF due THEN [i \in Ips |-> 0] ELSE counts
        rt1 == IF due THEN t + windowMs ELSE rt
        other == CHOOSE j \in Ips : j # ip
        currentCount == c1[ip] + c1[other]
    IN  IF currentCount >= maxRequests
        THEN [counts |-> c1, resetTime |-> rt1, cleared |-> due, status |-> 429,
              retryAfter |-> Math_ceil(rt1 - t, 1000)]
        ELSE [counts |-> [c1 EXCEPT ![ip] = c1[ip] + 1], resetTime |-> rt1,
              cleared |-> due, status |-> 0, retryAfter |-> 0]

rateLimiter_check(counts, rt, t, ip) ==
    LET due == t > rt
        c1  == IF due THEN [i \in Ips |-> 0] ELSE counts
        rt1 == IF due THEN t + windowMs ELSE rt
        currentCount == c1[ip]
    IN  IF currentCount >= maxRequests
        THEN [counts |-> c1, resetTime |-> rt1, cleared |-> due, status |-> 429,
              retryAfter |-> Math_ceil(rt1 - t, 1000)]
        ELSE [counts |-> [c1 EXCEPT ![ip] = currentCount + 1], resetTime |-> rt1,
              cleared |-> due, status |-> 0, retryAfter |-> 0]

(* The limiter's part of one request: the middleware runs on the limiter    *)
(* state and the outcome is recorded.  `before` and `rtBefore` are the      *)
(* caller's count and the reset time as the call found them; `prior` is the *)
(* number of the caller's calls already admitted in the window of the call. *)

LimiterStep(ip) ==
    LET r == rateLimiter_check(requestCounts, resetTime, now, ip)
        cleared == r.cleared
        prior == IF cleared THEN 0 ELSE admitted[ip]
    IN  /\ requestCounts' = r.counts
        /\ resetTime' = r.resetTime
        /\ admitted' = [i \in Ips |->
                          IF i = ip /\ r.status = 0 THEN prior + 1
                          ELSE IF cleared THEN 0 ELSE admitted[i]]
        /\ last' = [ip |-> ip, status |-> r.status, retryAfter |-> r.retryAfter,
                    before |-> requestCounts[ip], rtBefore |-> resetTime,
                    prior |-> prior]

LimInit ==
    /\ now = 0
    /\ requestCounts = [i \in Ips |-> 0]
    /\ resetTime = 0 + 60 * 1000
    /\ admitted = [i \in Ips |-> 0]
    /\ last = NoCall

(* The clock advances. *)
Tick ==
    /\ now + TickMs <= MaxTime
    /\ now' = now + TickMs
    /\ last' = NoCall
    /\ UNCHANGED <<requestCounts, resetTime, admitted>>

-----------------------------------------------------------------------------
(* Strings are sequences of one-character strings. *)

RECURSIVE FirstDigitRun(_)
RECURSIVE TakeDigits(_)
RECURSIVE parseInt(_)
RECURSIVE Includes(_, _)
RECURSIVE TrimStart(_)
RECURSIVE TrimEnd(_)
RECURSIVE indexOf(_, _, _)
RECURSIVE lastIndexOfFrom(_, _, _)
RECURSIVE Squeeze(_)

Digits == {"0", "1", "2", "3", "4", "5", "6", "7", "8", "9"}

DigitVal(c) ==
    CASE c = "0" -> 0 [] c = "1" -> 1 [] c = "2" -> 2 [] c = "3" -> 3 [] c = "4" -> 4
      [] c = "5" -> 5 [] c = "6" -> 6 [] c = "7" -> 7 [] c = "8" -> 8 [] c = "9" -> 9

TakeDigits(s) ==
    IF s = <<>> \/ Head(s) \notin Digits THEN <<>>
    ELSE <<Head(s)>> \o TakeDigits(Tail(s))

(* text.match(/\d+/): the first maximal run of digits, <<>> when there is none *)
FirstDigitRun(s) ==
    IF s = <<>> THEN <<>>
    ELSE IF Head(s) \in Digits THEN TakeDigits(s)
    ELSE FirstDigitRun(Tail(s))

(* parseInt of a run of digits *)
parseInt(d) ==
    IF d = <<>> THEN 0
    ELSE 10 * parseInt(SubSeq(d, 1, Len(d) - 1)) + DigitVal(d[Len(d)])

Math_min(a, b) == IF a < b THEN a ELSE b
Math_max(a, b) == IF a > b THEN a ELSE b

toLowerCase(s) ==
    [i \in 1 .. Len(s) |->
        CASE s[i] = "U" -> "u" [] s[i] = "P" -> "p" [] s[i] = "D" -> "d"
          [] s[i] = "O" -> "o" [] s[i] = "W" -> "w" [] s[i] = "N" -> "n"
          [] OTHER -> s[i]]

(* s.includes(sub) *)
Includes(s, sub) ==
    IF Len(s) < Len(sub) THEN FALSE
    ELSE IF SubSeq(s, 1, Len(sub)) = sub THEN TRUE
    ELSE Includes(Tail(s), sub)

TrimStart(s) == IF s # <<>> /\ Head(s) = " " THEN TrimStart(Tail(s)) ELSE s
TrimEnd(s) ==
    IF s # <<>> /\ s[Len(s)] = " " THEN TrimEnd(SubSeq(s, 1, Len(s) - 1)) ELSE s
trim(s) == TrimEnd(TrimStart(s))

(* s.indexOf(c) counted from 0, -1 when absent; i is the position examined *)
indexOf(s, c, i) ==
    IF i > Len(s) THEN -1
    ELSE IF s[i] = c THEN i - 1
    ELSE indexOf(s, c, i + 1)

lastIndexOfFrom(s, c, i) ==
    IF i < 1 THEN -1
    ELSE IF s[i] = c THEN i - 1
    ELSE lastIndexOfFrom(s, c, i - 1)

lastIndexOf(s, c) == lastIndexOfFrom(s, c, Len(s))

(* s.substring(a, b) for 0 <= a <= b *)
substring(s, a, b) == SubSeq(s, a + 1, Math_min(b, Len(s)))

(* A reply text is a sequence of tokens: "{" and "}", "M" (a member list     *)
(* with the five keys prediction, dataPoints, variables, historicalPatterns, *)
(* alternativeScenarios), "m" (a member list that lacks alternativeScenarios)*)
(* "n" (the literal null), "x" (prose) and " " (white space).                *)

Squeeze(s) ==
    IF s = <<>> THEN <<>>
    ELSE IF Head(s) = " " THEN Squeeze(Tail(s))
    ELSE <<Head(s)>> \o Squeeze(Tail(s))

(* JSON.parse(s): "throw" when s is no JSON text, else the value *)
JSON_parse(s) ==
    LET t == Squeeze(s)
    IN  CASE t = <<"{", "M", "}">> -> "object5"
          [] t = <<"{", "m", "}">> -> "object4"
          [] t = <<"{", "}">> -> "object0"
          [] t = <<"n">> -> "null"
          [] OTHER -> "throw"

-----------------------------------------------------------------------------
(* The server snapshots of the repository:                                  *)
(*   "hf"       Hugging Face completion, Voice RSS, probing status          *)
(*   "local"    local templates, Voice RSS, probing status                  *)
(*   "deepseek" DeepSeek completion with the mock fallback                  *)
(*   "mock"     local templates, mock text-to-speech, fixed status list     *)
(*   "openai"   OpenAI completion, counts also cleared by a timer           *)

Snapshots == {"hf", "local", "deepseek", "mock", "openai"}
RemoteSnapshots == {"hf", "deepseek", "openai"}

EnvNames == {"VOICERSS_API_KEY", "DEEPSEEK_API_KEY", "OPENAI_API_KEY",
             "ALPHAVANTAGE_API_KEY", "PI_KEY", "NEWS_API_KEY", "WIT_AI_TOKEN",
             "SPEECH_RECOGNITION_ENABLED", "TEXT_TO_SPEECH_ENABLED"}

NoEnv == [n \in EnvNames |-> "unset"]

(* !process.env.X *)
Unset(e, n) == e[n] = "unset"

ReqIds == {"r1"}
Prompts == {"prediction", "confidence", "trend"}

(* The body field a route requires (topic, text, company): undefined, "" or *)
(* a text.                                                                  *)
Fields == {"missing", "empty", "text"}

(* !value of JavaScript for such a field *)
Falsy_missing_only(v) == v = "missing"

Falsy(v) == v \in {"missing", "empty"}

IdleReq ==
    [pc |-> "idle", route |-> "", field |-> "", status |-> 0, nResp |-> 0,
     entered |-> FALSE, synth |-> 0, sent |-> [p \in Prompts |-> 0],
     conf |-> 0, trend |-> "", keys |-> "", aiFailed |-> FALSE, aiThrown |-> FALSE,
     mock |-> FALSE, callFailed |-> FALSE]

NewReq(route, field) == [IdleReq EXCEPT !.pc = "new", !.route = route, !.field = field]

(* res.status(code).json(body): the first call fixes the status *)
send(q, code) ==
    [q EXCEPT !.nResp = q.nResp + 1,
              !.status = IF q.nResp = 0 THEN code ELSE q.status]

done(q) == [q EXCEPT !.pc = "done"]

(* Math.random() is u / RandDenom for a numerator u of RandNums *)
RandDenom == 1000
RandNums == {0, 1, RandDenom \div 2, RandDenom - 1}

(* Math.floor(Math.random() * 46) + 50 *)
RandomConfidence_wide(u) == ((u * 56) \div RandDenom) + 50

RandomConfidence(u) == ((u * 46) \div RandDenom) + 50

trendOptions == <<"up", "down", "neutral">>

(* trendOptions[Math.floor(Math.random() * trendOptions.length)] *)
RandomTrend(u) == trendOptions[((u * Len(trendOptions)) \div RandDenom) + 1]

(* generatePredictionData of the template snapshots: synchronous, all five  *)
(* lists filled from the category's static lists                            *)
generatePredictionData_local(q, u1, u2) ==
    [q EXCEPT !.synth = q.synth + 1, !.conf = RandomConfidence(u1),
              !.trend = RandomTrend(u2), !.keys = "object5"]

(* generatePredictionData of the remote snapshots up to its first await:    *)
(* the prompt is built and generateAIResponse / generateDeepSeekResponse    *)
(* issues the completion request (OpenAI: unless the key is not configured) *)
generatePredictionData_begin(q, snap, e) ==
    LET q1 == [q EXCEPT !.synth = q.synth + 1]
    IN  IF snap = "openai" /\ Unset(e, "OPENAI_API_KEY")
        THEN done(send(q1, 500))
        ELSE [q1 EXCEPT !.sent["prediction"] = q1.sent["prediction"] + 1,
                        !.pc = "awaitAI"]

(* The route handler of POST /api/predict, entered from next() *)
predict_handler_noreturn(q, snap, e, u1, u2) ==
    LET q1 == [q EXCEPT !.entered = TRUE]
        q2 == IF Falsy(q1.field) THEN send(q1, 400) ELSE q1
    IN  IF snap \in {"local", "mock"}
        THEN done(send(generatePredictionData_local(q2, u1, u2), 200))
        ELSE generatePredictionData_begin(q2, snap, e)

predict_handler(q, snap, e, u1, u2) ==
    LET q1 == [q EXCEPT !.entered = TRUE]
    IN  IF Falsy(q1.field)
        THEN done(send(q1, 400))
        ELSE IF snap \in {"local", "mock"}
        THEN done(send(generatePredictionData_local(q1, u1, u2), 200))
        ELSE generatePredictionData_begin(q1, snap, e)

(* The route handler of POST /api/text-to-speech *)
tts_handler(q, snap, e) ==
    LET q1 == [q EXCEPT !.entered = TRUE]
    IN  IF Falsy(q1.field) THEN done(send(q1, 400))
        ELSE IF snap \in {"hf", "local"}
        THEN IF Unset(e, "VOICERSS_API_KEY")
             THEN done(send(q1, 500))
             ELSE done(send(q1, 200))
        ELSE IF snap = "mock" THEN [q1 EXCEPT !.pc = "awaitTimer"]
        ELSE done(send(q1, 200))

(* The route handler of POST /api/analyze up to its first await: the news,  *)
(* the financial data and the prediction statement are then awaited in turn *)
analyze_handler(q) ==
    LET q1 == [q EXCEPT !.entered = TRUE]
    IN  IF Falsy(q1.field) THEN done(send(q1, 400))
        ELSE [q1 EXCEPT !.pc = "awaitData"]

Routes(snap) ==
    CASE snap = "openai" -> {"predict", "analyze"}
      [] snap = "deepseek" -> {"predict", "tts"}
      [] OTHER -> {"predict", "tts", "analyze"}

(* The completion request settles.  Outcome kinds:                          *)
(*   "reject"   the request fails (network error, non-2xx reply of the      *)
(*              OpenAI client); apiKeyMsg: error.message includes "API key" *)
(*   "badbody"  response.json() rejects (the body is no JSON)               *)
(*   "errobj"   the body is an error object, not a completion               *)
(*   "nochoice" the completion holds no choice                              *)
(*   "text"     the completion's text                                       *)

ReplyTexts ==
    { <<"{", "M", "}">>, <<"{", "m", "}">>, <<"{", "}">>, <<"n">>, <<"x">>, <<>>,
      <<" ", "{", "M", "}">>, <<"x", "{", "M", "}">>, <<"{", "M", "}", "x">>,
      <<"x", "{", "M", "}", "x">>, <<"x", "{", "m", "}">>, <<"{", "M">>,
      <<"x", "}", "{">>, <<"x", "n">> }

ConfidenceTexts ==
    { <<"7", "5">>, <<"8", "5", "%">>, <<"1", "0", "0">>, <<"4">>, <<"0">>,
      <<"x", "9", "9", "x", "1">>, <<"-", "6", "0">>, <<"x">>, <<>>,
      <<"9", "5", ".", "5">>, <<"5", "0">> }

TrendTexts ==
    { <<"u", "p">>, <<"U", "p">>, <<"d", "o", "w", "n">>, <<"D", "O", "W", "N">>,
      <<"n", "e", "u", "t", "r", "a", "l">>, <<"d", "o", "w", "n", "u", "p">>,
      <<"s", "u", "p", "p", "o", "r", "t">>, <<>> }

Outcomes(texts) ==
    { [kind |-> "reject", apiKeyMsg |-> b, text |-> <<>>] : b \in BOOLEAN }
    \cup { [kind |-> k, apiKeyMsg |-> FALSE, text |-> <<>>] :
              k \in {"badbody", "errobj", "nochoice"} }
    \cup { [kind |-> "text", apiKeyMsg |-> FALSE, text |-> t] : t \in texts }

(* The outcome kinds each client library can produce *)
OutcomeKinds(snap) ==
    CASE snap = "hf" -> {"reject", "badbody", "errobj", "text"}
      [] snap = "openai" -> {"reject", "badbody", "errobj", "nochoice", "text"}
      [] OTHER -> {"reject", "nochoice", "text"}

(* mockDeepSeekResponse(prompt) *)
mockDeepSeekResponse(prompt) ==
    IF prompt = "prediction" THEN <<"{", "M", "}">>
    ELSE <<"x", "s", "u", "p", "p", "o", "r", "t", "x">>

(* generateAIResponse / generateDeepSeekResponse after the request settled: *)
(* [ok, text, mock]; ok = FALSE when the helper throws                      *)
generateAIResponse_end(snap, e, prompt, o) ==
    IF snap = "deepseek"
    THEN IF o.kind = "text"
         THEN [ok |-> TRUE, text |-> o.text, mock |-> FALSE]
         ELSE IF e["DEEPSEEK_API_KEY"] = "placeholder" \/ o.apiKeyMsg
              THEN [ok |-> TRUE, text |-> mockDeepSeekResponse(prompt), mock |-> TRUE]
              ELSE [ok |-> FALSE, text |-> <<>>, mock |-> FALSE]
    ELSE IF o.kind = "text" /\ o.text # <<>>
         THEN [ok |-> TRUE, text |-> o.text, mock |-> FALSE]
         ELSE [ok |-> FALSE, text |-> <<>>, mock |-> FALSE]

(* The text handed to JSON.parse: the DeepSeek snapshot cuts the text       *)
(* between the first "{" and the last "}" when it does not start with "{";  *)
(* ok = FALSE when it finds no such part and throws                         *)
extractJson(snap, aiText) ==
    IF snap = "deepseek" /\ ~(trim(aiText) # <<>> /\ Head(trim(aiText)) = "{")
    THEN LET jsonStartIndex == indexOf(aiText, "{", 1)
             jsonEndIndex == lastIndexOf(aiText, "}") + 1
         IN  IF jsonStartIndex >= 0 /\ jsonEndIndex > jsonStartIndex
             THEN [ok |-> TRUE, str |-> substring(aiText, jsonStartIndex, jsonEndIndex)]
             ELSE [ok |-> FALSE, str |-> <<>>]
    ELSE [ok |-> TRUE, str |-> aiText]

(* A completion or its parsing failed: the error reaches the route's catch  *)
onRemoteFailure_retry(q) ==
    [q EXCEPT !.aiFailed = TRUE, !.aiThrown = TRUE,
              !.sent["prediction"] = q.sent["prediction"] + 1]

onRemoteFailure(q) ==
    done(send([q EXCEPT !.aiFailed = TRUE, !.aiThrown = TRUE], 500))

(* the confidence of the DeepSeek snapshot *)
parseConfidence(text, u) ==
    LET confidenceMatch == FirstDigitRun(text)
    IN  IF confidenceMatch # <<>>
        THEN Math_min(95, Math_max(50, parseInt(confidenceMatch)))
        ELSE RandomConfidence(u)

(* the trend of the DeepSeek snapshot *)
parseTrend(text) ==
    IF Includes(toLowerCase(text), <<"u", "p">>) THEN "up"
    ELSE IF Includes(toLowerCase(text), <<"d", "o", "w", "n">>) THEN "down"
    ELSE "neutral"

(* generatePredictionData and the route handler after the first await *)
generatePredictionData_resume(q, snap, e, o, u1, u2) ==
    LET g == generateAIResponse_end(snap, e, "prediction", o)
        jsonStr == extractJson(snap, g.text)
        aiData == IF g.ok /\ jsonStr.ok THEN JSON_parse(jsonStr.str) ELSE "throw"
        q1 == [q EXCEPT !.mock = g.mock, !.aiFailed = g.mock,
                        !.callFailed = o.kind # "text"]
    IN  IF aiData = "throw" THEN onRemoteFailure(q1)
        ELSE IF aiData = "null" THEN done(send(q1, 500))
        ELSE IF snap = "deepseek"
        THEN [q1 EXCEPT !.keys = aiData, !.pc = "awaitCT",
                        !.sent["confidence"] = q1.sent["confidence"] + 1,
                        !.sent["trend"] = q1.sent["trend"] + 1]
        ELSE done(send([q1 EXCEPT !.keys = aiData, !.conf = RandomConfidence(u1),
                                  !.trend = RandomTrend(u2)], 200))

(* Promise.all of the DeepSeek snapshot: one of the two completions settles *)
finishIfBoth(q) ==
    IF q.conf # 0 /\ q.trend # "" THEN done(send(q, 200)) ELSE q

confidence_resume(q, e, o, u) ==
    LET g == generateAIResponse_end("deepseek", e, "confidence", o)
        q1 == [q EXCEPT !.callFailed = q.callFailed \/ o.kind # "text"]
    IN  IF ~g.ok THEN onRemoteFailure(q1)
        ELSE finishIfBoth([q1 EXCEPT !.conf = parseConfidence(g.text, u),
                                     !.mock = q.mock \/ g.mock,
                                     !.aiFailed = q.aiFailed \/ g.mock])

trend_resume(q, e, o) ==
    LET g == generateAIResponse_end("deepseek", e, "trend", o)
        q1 == [q EXCEPT !.callFailed = q.callFailed \/ o.kind # "text"]
    IN  IF ~g.ok THEN onRemoteFailure(q1)
        ELSE finishIfBoth([q1 EXCEPT !.trend = parseTrend(g.text),
                                     !.mock = q.mock \/ g.mock,
                                     !.aiFailed = q.aiFailed \/ g.mock])

-----------------------------------------------------------------------------
(* The template synthesizer of the local snapshots (generatePredictionData  *)
(* of src/server/index.js, second snapshot, and of src/unnamed/part_000).   *)
(* A value of the request body is a string or undefined.  A template is the *)
(* sequence of the parts of a template literal; a rendered text is the      *)
(* sequence of its parts after interpolation.                               *)

Str(s) == [t |-> "string", v |-> s]
Undefined == [t |-> "undefined", v |-> ""]

(* the conversion of ${value} in a template literal *)
String(val) == IF val.t = "undefined" THEN "undefined" ELSE val.v

formatTimeframe(timeframe) ==
    CASE timeframe = Str("1week") -> "week"
      [] timeframe = Str("1month") -> "month"
      [] timeframe = Str("3months") -> "three months"
      [] timeframe = Str("6months") -> "six months"
      [] timeframe = Str("1year") -> "year"
      [] timeframe = Str("5years") -> "five years"
      [] OTHER -> "coming period"

Render(template, topic, timeframe) ==
    [i \in 1 .. Len(template) |->
        CASE template[i] = "${topic}" -> String(topic)
          [] template[i] = "${formatTimeframe(timeframe)}" -> formatTimeframe(timeframe)
          [] OTHER -> template[i]]

RenderAll(list, topic, timeframe) ==
    [k \in 1 .. Len(list) |-> Render(list[k], topic, timeframe)]

(* list[Math.floor(Math.random() * list.length)] *)
Pick(list, u) == list[((u * Len(list)) \div RandDenom) + 1]

(* the three lists of generateFinancePrediction *)
financePredictions ==
    [ upPredictions |->
        << <<"${topic}", " is projected to experience growth over the ", "${formatTimeframe(timeframe)}", ". Market indicators suggest positive momentum with potential for increased valuation.">>,
           <<"Analysis indicates an upward trajectory for ", "${topic}", " in the coming ", "${formatTimeframe(timeframe)}", ". Fundamental factors and technical indicators align for potential appreciation.">>,
           <<"${topic}", " shows promising growth potential over the next ", "${formatTimeframe(timeframe)}", ". Market conditions and sector performance suggest favorable positioning.">> >>,
      downPredictions |->
        << <<"${topic}", " may face challenges in the ", "${formatTimeframe(timeframe)}", " ahead. Market indicators suggest potential correction or valuation adjustment.">>,
           <<"Analysis indicates a potential downward adjustment for ", "${topic}", " over the next ", "${formatTimeframe(timeframe)}", ". Investors should consider defensive positioning.">>,
           <<"${topic}", " shows signs of potential decline in the coming ", "${formatTimeframe(timeframe)}", ". Market conditions and competitive pressures may impact performance.">> >>,
      neutralPredictions |->
        << <<"${topic}", " is likely to maintain relatively stable performance over the ", "${formatTimeframe(timeframe)}", ". Significant volatility appears limited based on current indicators.">>,
           <<"Analysis suggests ", "${topic}", " will trade within a defined range for the next ", "${formatTimeframe(timeframe)}", ". No strong directional bias is indicated by current metrics.">>,
           <<"${topic}", " is projected to experience balanced forces over the coming ", "${formatTimeframe(timeframe)}", ", resulting in relatively neutral performance.">> >> ]

financeDataPoints ==
    << <<"${topic}", " has shown a correlation with broader market indices of 0.76">>,
       <<"Technical indicators suggest a potential support level at recent lows">>,
       <<"Institutional ownership has changed by 4.3% in the last quarter">>,
       <<"Volatility metrics indicate lower than average expected movement">>,
       <<"Sector performance shows similar assets moving in the same direction">> >>

(* the list `predictions` of generateSportsPrediction, generateEntertainmentPrediction, generateGlobalPrediction, generateEnvironmentPrediction and generateTechnologyPrediction *)
predictions ==
    [ sports |->
        << <<"${topic}", " shows strong potential for success in the upcoming ", "${formatTimeframe(timeframe)}", ". Performance metrics and competitive analysis suggest favorable outcomes.">>,
           <<"Based on current form and historical performance, ", "${topic}", " is projected to achieve above-average results in the ", "${formatTimeframe(timeframe)}", " ahead.">>,
           <<"Analysis of ", "${topic}", "'s recent performance indicates potential for significant achievement within the next ", "${formatTimeframe(timeframe)}", ", though competition remains strong.">>,
           <<"${topic}", " faces mixed prospects in the coming ", "${formatTimeframe(timeframe)}", ". While strengths are evident in certain areas, challenges may limit overall success.">> >>,
      entertainment |->
        << <<"${topic}", " is projected to generate significant audience interest over the next ", "${formatTimeframe(timeframe)}", ". Engagement metrics and early indicators suggest strong reception.">>,
           <<"Analysis indicates ", "${topic}", " will likely achieve above-average popularity within the ", "${formatTimeframe(timeframe)}", ", potentially establishing a strong position in its category.">>,
           <<"${topic}", " shows promising potential for cultural impact in the coming ", "${formatTimeframe(timeframe)}", ". Current trends and audience sentiment suggest favorable reception.">>,
           <<"Based on comparable releases and market positioning, ", "${topic}", " may experience moderate success over the next ", "${formatTimeframe(timeframe)}", " with potential for growth.">> >>,
      global |->
        << <<"${topic}", " is likely to evolve significantly over the next ", "${formatTimeframe(timeframe)}", ". Current diplomatic efforts and stakeholder positions suggest movement toward resolution.">>,
           <<"Analysis indicates ", "${topic}", " will remain a focal point for the coming ", "${formatTimeframe(timeframe)}", ", with gradual developments rather than dramatic shifts.">>,
           <<"${topic}", " shows signs of potential breakthrough within the ", "${formatTimeframe(timeframe)}", ". Key indicators suggest conditions may be favorable for progress.">>,
           <<"Based on historical precedents and current dynamics, ", "${topic}", " may experience complex developments over the next ", "${formatTimeframe(timeframe)}", " with multiple competing influences.">> >>,
      environment |->
        << <<"${topic}", " is projected to show measurable changes over the next ", "${formatTimeframe(timeframe)}", ". Scientific models suggest continued trends with potential acceleration.">>,
           <<"Analysis indicates ", "${topic}", " will likely experience significant developments within the ", "${formatTimeframe(timeframe)}", ", with implications for related environmental systems.">>,
           <<"${topic}", " shows signs of potential stabilization in the coming ", "${formatTimeframe(timeframe)}", ", though regional variations may present a more complex picture.">>,
           <<"Based on current measurements and intervention efforts, ", "${topic}", " may see gradual improvement over the next ", "${formatTimeframe(timeframe)}", ", contingent on continued action.">> >>,
      technology |->
        << <<"${topic}", " is poised for significant advancement in the next ", "${formatTimeframe(timeframe)}", ". Development roadmaps and research progress suggest breakthrough potential.">>,
           <<"Analysis indicates ", "${topic}", " will likely achieve important milestones within the ", "${formatTimeframe(timeframe)}", ", potentially transforming related technological domains.">>,
           <<"${topic}", " shows promising development trajectory for the coming ", "${formatTimeframe(timeframe)}", ". Current progress and investment patterns suggest accelerating innovation.">>,
           <<"Based on current research and implementation efforts, ", "${topic}", " may reach commercial viability within the next ", "${formatTimeframe(timeframe)}", ", though challenges remain.">> >> ]

(* case 'finance' of the switch (category) *)
finance_case ==
    [ variables |->
        << <<"Central bank interest rate decisions">>,
           <<"Quarterly earnings reports">>,
           <<"Geopolitical tensions affecting markets">>,
           <<"Regulatory changes in the industry">>,
           <<"Unexpected market volatility">> >>,
      historicalPatterns |->
        << <<"Similar assets have shown cyclical patterns over 5-year periods">>,
           <<"Previous market corrections of this magnitude typically recover within 18 months">>,
           <<"Sector rotation typically follows this pattern during economic transitions">> >>,
      alternativeScenarios |->
        << <<"Rapid growth scenario: Exceeding market expectations by 15-20%">>,
           <<"Moderate decline scenario: Temporary setback followed by recovery">>,
           <<"Stagnation scenario: Extended period of minimal movement">> >> ]

(* case 'sports' of the switch (category) *)
sports_case ==
    [ dataPoints |->
        << <<"Historical performance in similar competitions">>,
           <<"Current team/athlete form and recent results">>,
           <<"Head-to-head statistics against likely opponents">>,
           <<"Injury reports and team composition changes">>,
           <<"Venue and environmental factors">> >>,
      variables |->
        << <<"Unexpected injuries to key players">>,
           <<"Weather conditions affecting performance">>,
           <<"Coaching or strategic changes">>,
           <<"Psychological factors and team morale">>,
           <<"Referee decisions in critical moments">> >>,
      historicalPatterns |->
        << <<"Teams with similar statistics have achieved comparable results in past tournaments">>,
           <<"Historical performance patterns in this competition suggest cyclical success rates">>,
           <<"Previous champions have shown similar performance metrics at this stage">> >>,
      alternativeScenarios |->
        << <<"Underdog victory scenario: Unexpected breakthrough performance">>,
           <<"Favorite dominance scenario: Clear victory with significant margin">>,
           <<"Competitive balance scenario: Close contest with unpredictable outcome">> >> ]

(* case 'entertainment' of the switch (category) *)
entertainment_case ==
    [ dataPoints |->
        << <<"Current trends in audience preferences">>,
           <<"Historical performance of similar content/artists">>,
           <<"Industry expert opinions and early reviews">>,
           <<"Social media sentiment and engagement metrics">>,
           <<"Market positioning and promotional strategy">> >>,
      variables |->
        << <<"Competing releases in the same timeframe">>,
           <<"Critical reception and word-of-mouth">>,
           <<"Unexpected controversies or publicity">>,
           <<"Platform algorithm changes affecting visibility">>,
           <<"Cultural events impacting public interest">> >>,
      historicalPatterns |->
        << <<"Similar content has followed predictable audience growth patterns">>,
           <<"Seasonal trends show consistent preferences during this period">>,
           <<"Previous works by the same creators show recognizable reception patterns">> >>,
      alternativeScenarios |->
        << <<"Breakout success scenario: Exceeding expectations with viral popularity">>,
           <<"Niche appeal scenario: Strong dedicated following but limited mainstream impact">>,
           <<"Delayed recognition scenario: Slow start followed by growing appreciation">> >> ]

(* case 'global' of the switch (category) *)
global_case ==
    [ dataPoints |->
        << <<"Historical precedents in similar situations">>,
           <<"Current diplomatic relations between key actors">>,
           <<"Economic indicators and trade relationships">>,
           <<"Public opinion polling and sentiment analysis">>,
           <<"Expert analysis from political scientists and regional specialists">> >>,
      variables |->
        << <<"Unexpected leadership changes or elections">>,
           <<"Natural disasters or humanitarian crises">>,
           <<"Technological disruptions affecting governance">>,
           <<"Shifts in international alliances">>,
           <<"Economic shocks or financial crises">> >>,
      historicalPatterns |->
        << <<"Similar geopolitical tensions have resolved through diplomatic channels historically">>,
           <<"Regional power dynamics have followed predictable patterns in comparable situations">>,
           <<"Economic interdependence has influenced political outcomes in similar cases">> >>,
      alternativeScenarios |->
        << <<"Cooperation scenario: Increased international collaboration and resolution">>,
           <<"Escalation scenario: Heightened tensions with potential for conflict">>,
           <<"Status quo scenario: Continued uncertainty with minimal substantive change">> >> ]

(* case 'environment' of the switch (category) *)
environment_case ==
    [ dataPoints |->
        << <<"Current measurement trends and scientific observations">>,
           <<"Climate modeling projections from multiple sources">>,
           <<"Historical data patterns and seasonal variations">>,
           <<"Policy implementation timelines and effectiveness metrics">>,
           <<"Technological adoption rates for relevant solutions">> >>,
      variables |->
        << <<"Policy changes affecting environmental regulations">>,
           <<"Technological breakthroughs in relevant fields">>,
           <<"Natural events affecting measurement accuracy">>,
           <<"Changes in industrial activity or emissions">>,
           <<"Public behavior and consumption pattern shifts">> >>,
      historicalPatterns |->
        << <<"Similar environmental interventions have shown measurable impacts within comparable timeframes">>,
           <<"Seasonal and cyclical patterns suggest predictable variations in measurements">>,
           <<"Previous policy implementations have demonstrated similar adoption and compliance rates">> >>,
      alternativeScenarios |->
        << <<"Accelerated improvement scenario: Faster than expected positive change">>,
           <<"Delayed impact scenario: Slower response with eventual improvement">>,
           <<"Mixed outcome scenario: Improvements in some metrics offset by challenges in others">> >> ]

(* case 'technology' of the switch (category) *)
technology_case ==
    [ dataPoints |->
        << <<"Current development roadmaps and industry announcements">>,
           <<"Investment patterns in relevant sectors">>,
           <<"Patent filings and research publication trends">>,
           <<"Early adoption metrics and user feedback">>,
           <<"Regulatory environment and compliance requirements">> >>,
      variables |->
        << <<"Competitive technology developments">>,
           <<"Regulatory changes affecting implementation">>,
           <<"Supply chain disruptions or component availability">>,
           <<"Consumer adoption rates and market acceptance">>,
           <<"Unforeseen technical challenges or limitations">> >>,
      historicalPatterns |->
        << <<"Similar technologies have followed predictable adoption curves">>,
           <<"Previous iterations have demonstrated consistent improvement metrics">>,
           <<"Market penetration for comparable innovations shows recognizable patterns">> >>,
      alternativeScenarios |->
        << <<"Rapid adoption scenario: Faster than expected market penetration">>,
           <<"Niche application scenario: Limited but valuable specialized use cases">>,
           <<"Disruptive impact scenario: Unexpected applications transforming adjacent industries">> >> ]

(* case default of the switch (category) *)
default_case ==
    [ dataPoints |->
        << <<"Current trends suggest continued interest in this area">>,
           <<"Historical patterns indicate cyclical behavior">>,
           <<"Expert opinions are divided but cautiously optimistic">>,
           <<"Related indicators show correlated movement">>,
           <<"Preliminary data suggests emerging patterns">> >>,
      variables |->
        << <<"Unexpected developments in related areas">>,
           <<"Changes in public interest or engagement">>,
           <<"Resource allocation and priority shifts">>,
           <<"External events affecting focus or implementation">>,
           <<"New information changing fundamental assumptions">> >>,
      historicalPatterns |->
        << <<"Similar situations have resolved with mixed outcomes">>,
           <<"Previous instances show gradual progression rather than sudden changes">>,
           <<"Cyclical patterns suggest predictable variations over time">> >>,
      alternativeScenarios |->
        << <<"Positive outcome scenario: Better than expected results">>,
           <<"Negative outcome scenario: Challenges exceeding anticipated difficulties">>,
           <<"Mixed outcome scenario: Varied results across different aspects">> >> ]

generateFinancePrediction_up_only(topic, timeframe, trend, u) ==
    Render(Pick(financePredictions.upPredictions, u), topic, timeframe)

generateFinancePrediction(topic, timeframe, trend, u) ==
    IF trend = "up" THEN Render(Pick(financePredictions.upPredictions, u), topic, timeframe)
    ELSE IF trend = "down" THEN Render(Pick(financePredictions.downPredictions, u), topic, timeframe)
    ELSE Render(Pick(financePredictions.neutralPredictions, u), topic, timeframe)

generateFinanceDataPoints_four(topic) ==
    SubSeq(RenderAll(financeDataPoints, topic, Undefined), 1, 4)

generateFinanceDataPoints(topic) == RenderAll(financeDataPoints, topic, Undefined)

defaultPrediction ==
    <<"Based on available data, we predict moderate changes with potential for significant developments depending on several key factors.">>

(* the switch (category) of generatePredictionData *)
categoryLists(category, topic, timeframe, trend, u) ==
    LET static(l) == RenderAll(l, topic, timeframe)
        picked(l) == Render(Pick(l, u), topic, timeframe)
        four(p, d, v, h, a) ==
            [prediction |-> p, dataPoints |-> d, variables |-> static(v),
             historicalPatterns |-> static(h), alternativeScenarios |-> static(a)]
    IN  CASE category = Str("finance") ->
                four(generateFinancePrediction(topic, timeframe, trend, u),
                     generateFinanceDataPoints(topic), finance_case.variables,
                     finance_case.historicalPatterns, finance_case.alternativeScenarios)
          [] category = Str("sports") ->
                four(picked(predictions.sports), static(sports_case.dataPoints), sports_case.variables,
                     sports_case.historicalPatterns, sports_case.alternativeScenarios)
          [] category = Str("entertainment") ->
                four(picked(predictions.entertainment), static(entertainment_case.dataPoints),
                     entertainment_case.variables, entertainment_case.historicalPatterns,
                     entertainment_case.alternativeScenarios)
          [] category = Str("global") ->
                four(picked(predictions.global), static(global_case.dataPoints), global_case.variables,
                     global_case.historicalPatterns, global_case.alternativeScenarios)
          [] category = Str("environment") ->
                four(picked(predictions.environment), static(environment_case.dataPoints),
                     environment_case.variables, environment_case.historicalPatterns,
                     environment_case.alternativeScenarios)
          [] category = Str("technology") ->
                four(picked(predictions.technology), static(technology_case.dataPoints),
                     technology_case.variables, technology_case.historicalPatterns,
                     technology_case.alternativeScenarios)
          [] OTHER ->
                four(defaultPrediction, static(default_case.dataPoints), default_case.variables,
                     default_case.historicalPatterns, default_case.alternativeScenarios)

(* generatePredictionData(request): u1, u2, u3 are the three Math.random()  *)
(* numerators and stamp is now.toLocaleString(...)                          *)
generatePredictionData(request, u1, u2, u3, stamp) ==
    LET confidence == RandomConfidence(u1)
        trend == RandomTrend(u2)
        l == categoryLists(request.category, request.topic, request.timeframe, trend, u3)
    IN  [topic |-> request.topic, category |-> request.category,
         timeframe |-> request.timeframe, prediction |-> l.prediction,
         confidence |-> confidence, trend |-> trend, dataPoints |-> l.dataPoints,
         variables |-> l.variables, historicalPatterns |-> l.historicalPatterns,
         alternativeScenarios |-> l.alternativeScenarios, lastUpdated |-> stamp]

(* the keys of the object generatePredictionData returns, in order *)
ResultKeys ==
    <<"topic", "category", "timeframe", "prediction", "confidence", "trend",
      "dataPoints", "variables", "historicalPatterns", "alternativeScenarios",
      "lastUpdated">>

(* result[k] === undefined; only the members copied from the request can be *)
IsUndefined(result, k) ==
    k \in {"topic", "category", "timeframe"} /\ result[k] = Undefined

RECURSIVE Members(_, _)

(* JSON.stringify of an object, as res.json does: the members in key order, *)
(* each with the JSON text of its value; a member whose value is undefined  *)
(* is left out.  The text of a string, a number or an array of strings is   *)
(* kept as the value it denotes: JSON.parse inverts JSON.stringify on them. *)
Members(result, keys) ==
    IF keys = <<>> THEN <<>>
    ELSE IF IsUndefined(result, Head(keys)) THEN Members(result, Tail(keys))
    ELSE <<[key |-> Head(keys), text |-> [json |-> result[Head(keys)]]]>>
            \o Members(result, Tail(keys))

JSON_stringify(result) == Members(result, ResultKeys)

(* JSON.parse of the body (response.data of axios): an object with the      *)
(* members of the text                                                      *)
JSON_parse_object(body) ==
    [k \in {body[i].key : i \in 1 .. Len(body)} |->
        LET i == CHOOSE j \in 1 .. Len(body) : body[j].key = k
        IN  body[i].text.json]

NoGen == [pc |-> "idle"]

-----------------------------------------------------------------------------
(* The client: handleApiRequest of services/api.ts wraps every call to the  *)
(* server in a throttle of its own and in a catch that rewrites the error.  *)

MAX_REQUESTS_PER_MINUTE == 10

RateLimitMessage == "Rate limit exceeded. Please try again later."

(* What requestFn can end with: its value, or a thrown error.  An error is   *)
(* an AxiosError with a response, with a request only or with neither, or a  *)
(* plain Error.                                                              *)
Settlements == {"value", "axiosResponse", "axiosRequest", "axiosSetup", "plain"}

(* The stages of the App component's pipelineSteps state, in list order *)
StepNames ==
    <<"Voice Recognition", "Natural Language Processing", "Data Collection",
      "Pattern Analysis", "Prediction Generation">>

stepDurations == <<2000, 3000, 2500, 3500, 2000>>

(* progress: -1 stands for undefined *)
PendingStep == [status |-> "pending", progress |-> -1]

(* The module state of api.ts (requestCount, resetTime), the call of         *)
(* handleApiRequest in progress (pc, denied, rejected, resolved; sent counts *)
(* the calls passed on to requestFn, sinceReset those passed on since        *)
(* requestCount was last set to 0) and the state of the App component        *)
(* (loading, error, results, steps) with the position of its handleSubmit    *)
(* (submit, i, progress, delay; incs counts the timed increments of each     *)
(* stage since the submit, blank tells whether the topic of the last call of *)
(* handleSubmit was empty or white space).                                   *)
IdleCli ==
    [requestCount |-> 0, resetTime |-> 0 + 60000, pc |-> "idle", denied |-> FALSE,
     sent |-> 0, sinceReset |-> 0, rejected |-> "", resolved |-> FALSE,
     submit |-> "idle", i |-> 0, progress |-> 0, delay |-> 0,
     steps |-> [k \in 1 .. Len(StepNames) |-> PendingStep],
     incs |-> [k \in 1 .. Len(StepNames) |-> 0],
     loading |-> FALSE, error |-> "", results |-> FALSE, blank |-> FALSE]

(* the catch block of handleApiRequest: the promise rejects with a new Error *)
handleApiRequest_catch(c, isAxiosError, kind) ==
    [c EXCEPT !.pc = "done",
              !.rejected =
                  IF isAxiosError
                  THEN CASE kind = "axiosResponse" -> "Server error: status - error"
                         [] kind = "axiosRequest" ->
                              "No response from server. Please check your connection."
                         [] OTHER -> "Request error: message"
                  ELSE "Failed to process request. Please try again."]

handleApiRequest_begin_gt(c, t) ==
    LET c0 == [c EXCEPT !.denied = FALSE, !.rejected = "", !.resolved = FALSE]
        c1 == IF t > c0.resetTime
              THEN [c0 EXCEPT !.requestCount = 0, !.resetTime = t + 60000,
                              !.sinceReset = 0]
              ELSE c0
    IN  IF c1.requestCount > MAX_REQUESTS_PER_MINUTE
        THEN handleApiRequest_catch([c1 EXCEPT !.denied = TRUE], FALSE, "plain")
        ELSE [c1 EXCEPT !.requestCount = c1.requestCount + 1, !.pc = "await",
                        !.sent = c1.sent + 1, !.sinceReset = c1.sinceReset + 1]

(* handleApiRequest up to `await requestFn()`, called at instant t *)
handleApiRequest_begin(c, t) ==
    LET c0 == [c EXCEPT !.denied = FALSE, !.rejected = "", !.resolved = FALSE]
        c1 == IF t > c0.resetTime
              THEN [c0 EXCEPT !.requestCount = 0, !.resetTime = t + 60000,
                              !.sinceReset = 0]
              ELSE c0
    IN  IF c1.requestCount >= MAX_REQUESTS_PER_MINUTE
        THEN handleApiRequest_catch([c1 EXCEPT !.denied = TRUE], FALSE, "plain")
        ELSE [c1 EXCEPT !.requestCount = c1.requestCount + 1, !.pc = "await",
                        !.sent = c1.sent + 1, !.sinceReset = c1.sinceReset + 1]

(* handleApiRequest after `await requestFn()` *)
handleApiRequest_resume(c, settlement) ==
    IF settlement = "value" THEN [c EXCEPT !.pc = "done", !.resolved = TRUE]
    ELSE handleApiRequest_catch(c, settlement # "plain", settlement)

-----------------------------------------------------------------------------
(* The server: requests arrive, pass the limiter and their route handler    *)
(* in one turn of the event loop, and resume when what they await settles.  *)
(* The requests of this specification arrive within the first window; the   *)
(* passing of windows is the subject of SpecLimiter.                        *)

IdleSta == [pc |-> "idle", who |-> "", i |-> 0, probed |-> {}, report |-> <<>>]

ServerEnvs(snap) ==
    CASE snap \in {"hf", "local"} ->
            { [NoEnv EXCEPT !["VOICERSS_API_KEY"] = v] : v \in {"unset", "set"} }
      [] snap = "deepseek" ->
            { [NoEnv EXCEPT !["DEEPSEEK_API_KEY"] = d, !["VOICERSS_API_KEY"] = v] :
                 d \in {"unset", "placeholder", "set"}, v \in {"unset", "set"} }
      [] snap = "openai" ->
            { [NoEnv EXCEPT !["OPENAI_API_KEY"] = v] : v \in {"unset", "set"} }
      [] OTHER -> {NoEnv}

InitServer ==
    /\ LimInit
    /\ snapshot \in Snapshots
    /\ env \in ServerEnvs(snapshot)
    /\ req = [r \in ReqIds |-> IdleReq]
    /\ sta = IdleSta
    /\ cli = IdleCli
    /\ gen = NoGen
    /\ tmr = NoTimer
    /\ hist = NoHist
    /\ twin = NoTwin
    /\ sp = IdleSp

Request_validate_first(r, route, ip, field, u1, u2) ==
    /\ req[r].pc = "idle"
    /\ route \in Routes(snapshot)
    /\ IF Falsy(field)
       THEN /\ req' = [req EXCEPT ![r] =
                         done(send([NewReq(route, field) EXCEPT !.entered = TRUE], 400))]
            /\ last' = NoCall
            /\ UNCHANGED <<requestCounts, resetTime, admitted>>
       ELSE /\ LimiterStep(ip)
            /\ LET c == rateLimiter_check(requestCounts, resetTime, now, ip)
                   q == NewReq(route, field)
               IN  req' = [req EXCEPT ![r] =
                             IF c.status = 429 THEN done(send(q, 429))
                             ELSE IF route = "predict"
                                  THEN predict_handler(q, snapshot, env, u1, u2)
                                  ELSE IF route = "tts" THEN tts_handler(q, snapshot, env)
                                  ELSE analyze_handler(q)]
    /\ UNCHANGED <<now, snapshot, env, sta, cli, gen, tmr, hist, twin, sp>>

(* app.post(route, rateLimiter.check.bind(rateLimiter), handler): a request *)
(* arrives, the middleware runs and, on next(), the route handler up to its *)
(* first await                                                              *)
Request(r, route, ip, field, u1, u2) ==
    /\ req[r].pc = "idle"
    /\ route \in Routes(snapshot)
    /\ LimiterStep(ip)
    /\ LET c == rateLimiter_check(requestCounts, resetTime, now, ip)
           q == NewReq(route, field)
       IN  req' = [req EXCEPT ![r] =
                     IF c.status = 429 THEN done(send(q, 429))
                     ELSE IF route = "predict"
                          THEN predict_handler(q, snapshot, env, u1, u2)
                          ELSE IF route = "tts" THEN tts_handler(q, snapshot, env)
                          ELSE analyze_handler(q)]
    /\ UNCHANGED <<now, snapshot, env, sta, cli, gen, tmr, hist, twin, sp>>

CompletionSettles(r, o, u1, u2) ==
    /\ req[r].pc = "awaitAI"
    /\ o.kind \in OutcomeKinds(snapshot)
    /\ req' = [req EXCEPT ![r] =
                 generatePredictionData_resume(req[r], snapshot, env, o, u1, u2)]
    /\ last' = NoCall
    /\ UNCHANGED <<now, requestCounts, resetTime, admitted, snapshot, env, sta, cli, gen, tmr, hist, twin, sp>>

ConfidenceSettles(r, o, u) ==
    /\ req[r].pc = "awaitCT"
    /\ req[r].conf = 0
    /\ o.kind \in OutcomeKinds(snapshot)
    /\ req' = [req EXCEPT ![r] = confidence_resume(req[r], env, o, u)]
    /\ last' = NoCall
    /\ UNCHANGED <<now, requestCounts, resetTime, admitted, snapshot, env, sta, cli, gen, tmr, hist, twin, sp>>

TrendSettles(r, o) ==
    /\ req[r].pc = "awaitCT"
    /\ req[r].trend = ""
    /\ o.kind \in OutcomeKinds(snapshot)
    /\ req' = [req EXCEPT ![r] = trend_resume(req[r], env, o)]
    /\ last' = NoCall
    /\ UNCHANGED <<now, requestCounts, resetTime, admitted, snapshot, env, sta, cli, gen, tmr, hist, twin, sp>>

(* setTimeout(() => res.json(...), 1000) of the mock text-to-speech route *)
TimerFires(r) ==
    /\ req[r].pc = "awaitTimer"
    /\ req' = [req EXCEPT ![r] = done(send(req[r], 200))]
    /\ last' = NoCall
    /\ UNCHANGED <<now, requestCounts, resetTime, admitted, snapshot, env, sta, cli, gen, tmr, hist, twin, sp>>

(* What /api/analyze awaits has settled: res.json(...) when getCompanyNews,  *)
(* getFinancialData and the prediction statement all returned, the catch    *)
(* block's res.status(500) when one of them threw                           *)
AnalyzeSettles(r, outcome) ==
    /\ req[r].pc = "awaitData"
    /\ req' = [req EXCEPT ![r] = done(send(req[r], IF outcome = "ok" THEN 200 ELSE 500))]
    /\ last' = NoCall
    /\ UNCHANGED <<now, requestCounts, resetTime, admitted, snapshot, env, sta, cli, gen, tmr, hist, twin, sp>>

(* The response is out and the request is forgotten. *)
Close(r) ==
    /\ req[r].pc = "done"
    /\ req' = [req EXCEPT ![r] = IdleReq]
    /\ last' = NoCall
    /\ UNCHANGED <<now, requestCounts, resetTime, admitted, snapshot, env, sta, cli, gen, tmr, hist, twin, sp>>

NextServer ==
    \/ \E r \in ReqIds, route \in {"predict", "tts", "analyze"}, ip \in Ips,
          field \in Fields, u1 \in RandNums, u2 \in RandNums :
          Request(r, route, ip, field, u1, u2)
    \/ \E r \in ReqIds, o \in Outcomes(ReplyTexts), u1 \in RandNums, u2 \in RandNums :
          CompletionSettles(r, o, u1, u2)
    \/ \E r \in ReqIds, o \in Outcomes(ConfidenceTexts), u \in RandNums :
          ConfidenceSettles(r, o, u)
    \/ \E r \in ReqIds, o \in Outcomes(TrendTexts) : TrendSettles(r, o)
    \/ \E r \in ReqIds : TimerFires(r)
    \/ \E r \in ReqIds, outcome \in {"ok", "throw"} : AnalyzeSettles(r, outcome)
    \/ \E r \in ReqIds : Close(r)

SpecServer == InitServer /\ [][NextServer]_vars

-----------------------------------------------------------------------------
(* The status report: GET /api/status of the server snapshots and            *)
(* getApiStatus of the client.  Each dependency is reported in turn; `mode`  *)
(* is how the code decides its status:                                       *)
(*   "probe"      a request is sent to the dependency, whatever the key      *)
(*   "probeIfSet" disabled when the key is unset, else a request is sent     *)
(*   "probeIfKey" disabled when the key is unset or the placeholder, else a  *)
(*                request is sent                                            *)
(*   "flag"       connected when the variable is 'true', else disabled       *)
(*   "setOnly"    disabled when the token is unset, else connected           *)
(*   "fixed"      a status written in the source                             *)

Dep(name, var, mode, fixed) == [name |-> name, var |-> var, mode |-> mode, fixed |-> fixed]

StatusDeps(snap, who) ==
    IF who = "client"
    THEN << Dep("Prediction API", "", "probe", ""),
            Dep("Voice RSS TTS", "VOICERSS_API_KEY", "probeIfSet", ""),
            Dep("Wit.ai Speech-to-Text", "WIT_AI_TOKEN", "setOnly", "") >>
    ELSE CASE snap = "hf" ->
                << Dep("Alpha Vantage", "ALPHAVANTAGE_API_KEY", "probe", ""),
                   Dep("News API", "NEWS_API_KEY", "probe", ""),
                   Dep("Voice RSS TTS", "VOICERSS_API_KEY", "probe", "") >>
           [] snap = "local" ->
                << Dep("Alpha Vantage", "PI_KEY", "probe", ""),
                   Dep("News API", "NEWS_API_KEY", "probe", ""),
                   Dep("Voice RSS TTS", "VOICERSS_API_KEY", "probe", "") >>
           [] snap = "deepseek" ->
                << Dep("DeepSeek AI", "DEEPSEEK_API_KEY", "probeIfKey", ""),
                   Dep("Speech Recognition", "SPEECH_RECOGNITION_ENABLED", "flag", ""),
                   Dep("Text-to-Speech", "TEXT_TO_SPEECH_ENABLED", "flag", "") >>
           [] OTHER ->
                << Dep("OpenAI API", "", "fixed", "connected"),
                   Dep("Google Cloud NLP", "", "fixed", "connected"),
                   Dep("Twitter API", "", "fixed", "disabled"),
                   Dep("Facebook Graph API", "", "fixed", "disabled"),
                   Dep("Hugging Face", "", "fixed", "connected"),
                   Dep("ScraperAPI", "", "fixed", "error") >>

Reporters(snap) == IF snap \in {"hf", "local"} THEN {"server", "client"} ELSE {"server"}

push(st, status) ==
    [st EXCEPT !.report = Append(st.report, status), !.i = st.i + 1]

RECURSIVE statusRun(_, _, _)

(* The handler runs from dependency st.i on, up to the next await or the end *)
statusRun(st, snap, e) ==
    LET deps == StatusDeps(snap, st.who)
    IN  IF st.i > Len(deps) THEN [st EXCEPT !.pc = "done"]
        ELSE LET d == deps[st.i]
                 probe == [st EXCEPT !.pc = "await", !.probed = st.probed \cup {d.name}]
             IN  CASE d.mode = "probe" -> probe
                   [] d.mode = "probeIfSet" ->
                        IF Unset(e, d.var) THEN statusRun(push(st, "disabled"), snap, e)
                        ELSE probe
                   [] d.mode = "probeIfKey" ->
                        IF Unset(e, d.var) \/ e[d.var] = "placeholder"
                        THEN statusRun(push(st, "disabled"), snap, e)
                        ELSE probe
                   [] d.mode = "flag" ->
                        statusRun(push(st, IF e[d.var] = "true" THEN "connected"
                                           ELSE "disabled"), snap, e)
                   [] d.mode = "setOnly" ->
                        statusRun(push(st, IF Unset(e, d.var) THEN "disabled"
                                           ELSE "connected"), snap, e)
                   [] OTHER -> statusRun(push(st, d.fixed), snap, e)

StatusEnvs(snap) ==
    CASE snap = "hf" ->
            { [NoEnv EXCEPT !["ALPHAVANTAGE_API_KEY"] = a, !["NEWS_API_KEY"] = n,
                            !["VOICERSS_API_KEY"] = v, !["WIT_AI_TOKEN"] = w] :
                 a \in {"unset", "set"}, n \in {"unset", "set"},
                 v \in {"unset", "set"}, w \in {"unset", "set"} }
      [] snap = "local" ->
            { [NoEnv EXCEPT !["PI_KEY"] = a, !["NEWS_API_KEY"] = n,
                            !["VOICERSS_API_KEY"] = v, !["WIT_AI_TOKEN"] = w] :
                 a \in {"unset", "set"}, n \in {"unset", "set"},
                 v \in {"unset", "set"}, w \in {"unset", "set"} }
      [] snap = "deepseek" ->
            { [NoEnv EXCEPT !["DEEPSEEK_API_KEY"] = d,
                            !["SPEECH_RECOGNITION_ENABLED"] = f,
                            !["TEXT_TO_SPEECH_ENABLED"] = g] :
                 d \in {"unset", "placeholder", "set"},
                 f \in {"unset", "true", "set"}, g \in {"unset", "true", "set"} }
      [] OTHER -> {NoEnv}

InitStatus ==
    /\ LimInit
    /\ snapshot \in Snapshots \ {"openai"}
    /\ env \in StatusEnvs(snapshot)
    /\ req = [r \in ReqIds |-> IdleReq]
    /\ sta = IdleSta
    /\ cli = IdleCli
    /\ gen = NoGen
    /\ tmr = NoTimer
    /\ hist = NoHist
    /\ twin = NoTwin
    /\ sp = IdleSp

StatusRequest(who) ==
    /\ sta.pc = "idle"
    /\ who \in Reporters(snapshot)
    /\ sta' = statusRun([IdleSta EXCEPT !.who = who, !.i = 1], snapshot, env)
    /\ UNCHANGED <<now, requestCounts, resetTime, admitted, last, snapshot, env, req, cli, gen, tmr, hist, twin, sp>>

(* The request sent to the dependency settles: connected or error *)
ProbeSettles(outcome) ==
    /\ sta.pc = "await"
    /\ sta' = statusRun(push([sta EXCEPT !.pc = "run"], outcome), snapshot, env)
    /\ UNCHANGED <<now, requestCounts, resetTime, admitted, last, snapshot, env, req, cli, gen, tmr, hist, twin, sp>>

StatusClose ==
    /\ sta.pc = "done"
    /\ sta' = IdleSta
    /\ UNCHANGED <<now, requestCounts, resetTime, admitted, last, snapshot, env, req, cli, gen, tmr, hist, twin, sp>>

NextStatus ==
    \/ \E who \in {"server", "client"} : StatusRequest(who)
    \/ \E outcome \in {"connected", "error"} : ProbeSettles(outcome)
    \/ StatusClose

SpecStatus == InitStatus /\ [][NextStatus]_vars

-----------------------------------------------------------------------------
(* The limiter alone: requests of any rate-limited route arrive from the    *)
(* clients and the middleware checks each of them as it arrives.            *)


Check(ip) ==
    /\ LimiterStep(ip)
    /\ UNCHANGED <<now, snapshot, env, req, sta, cli, gen, tmr, hist, twin, sp>>

InitLimiter ==
    /\ LimInit
    /\ snapshot = "hf"
    /\ env = NoEnv
    /\ req = [r \in ReqIds |-> IdleReq]
    /\ sta = IdleSta
    /\ cli = IdleCli
    /\ gen = NoGen
    /\ tmr = NoTimer
    /\ hist = NoHist
    /\ twin = NoTwin
    /\ sp = IdleSp

TickLimiter == Tick /\ UNCHANGED <<snapshot, env, req, sta, cli, gen, tmr, hist, twin, sp>>

NextLimiter ==
    \/ TickLimiter
    \/ \E ip \in Ips : Check(ip)

SpecLimiter == InitLimiter /\ [][NextLimiter]_vars

-----------------------------------------------------------------------------
(* The client's throttle alone: calls of getPrediction, generateSpeech and  *)
(* transcribeSpeech pass through handleApiRequest as the clock advances.    *)

MaxSent == 14

ClientCall ==
    /\ cli.pc = "idle"
    /\ cli.sent < MaxSent
    /\ cli' = handleApiRequest_begin(cli, now)
    /\ UNCHANGED <<now, requestCounts, resetTime, admitted, last, snapshot, env, req, sta, gen, tmr, hist, twin, sp>>

ClientSettles(settlement) ==
    /\ cli.pc = "await"
    /\ cli' = handleApiRequest_resume(cli, settlement)
    /\ UNCHANGED <<now, requestCounts, resetTime, admitted, last, snapshot, env, req, sta, gen, tmr, hist, twin, sp>>

(* The caller has handled the outcome. *)
ClientClose ==
    /\ cli.pc = "done"
    /\ cli' = [cli EXCEPT !.pc = "idle"]
    /\ UNCHANGED <<now, requestCounts, resetTime, admitted, last, snapshot, env, req, sta, gen, tmr, hist, twin, sp>>

InitClient ==
    /\ LimInit
    /\ snapshot = "local"
    /\ env = NoEnv
    /\ req = [r \in ReqIds |-> IdleReq]
    /\ sta = IdleSta
    /\ cli = IdleCli
    /\ gen = NoGen
    /\ tmr = NoTimer
    /\ hist = NoHist
    /\ twin = NoTwin
    /\ sp = IdleSp

NextClient ==
    \/ ClientCall
    \/ \E settlement \in Settlements : ClientSettles(settlement)
    \/ ClientClose
    \/ TickLimiter

SpecClient == InitClient /\ [][NextClient]_vars

-----------------------------------------------------------------------------
(* The template synthesizer alone: generatePredictionData is called with a  *)
(* request whose topic passed the route's test, and the result is kept      *)
(* until it is answered.                                                    *)

Topics == {Str("AAPL"), Str(" ${topic} "), Str("O'Neil & \"sons\"")}

Categories ==
    {Str("finance"), Str("sports"), Str("entertainment"), Str("global"),
     Str("environment"), Str("technology"), Str("Finance"), Str("weather"), Undefined}

Timeframes == {Str("1week"), Str("3months"), Str("5years"), Str("2weeks"), Undefined}

Stamps == {"Jan 1, 2025, 12:00 AM", "Dec 31, 2025, 11:59 PM"}

Generate(topic, category, timeframe, u1, u2, u3, stamp) ==
    /\ gen.pc = "idle"
    /\ LET request == [topic |-> topic, category |-> category, timeframe |-> timeframe]
       IN  gen' = [pc |-> "made", request |-> request,
                   result |-> generatePredictionData(request, u1, u2, u3, stamp)]
    /\ UNCHANGED <<now, requestCounts, resetTime, admitted, last, snapshot, env, req, sta, cli, tmr, hist, twin, sp>>

(* The exchange is over. *)
(* res.json(predictionData), and the client parses the body *)
ResJson ==
    /\ gen.pc = "made"
    /\ gen' = [pc |-> "sent", request |-> gen.request, result |-> gen.result,
               body |-> JSON_stringify(gen.result),
               data |-> JSON_parse_object(JSON_stringify(gen.result))]
    /\ UNCHANGED <<now, requestCounts, resetTime, admitted, last, snapshot, env, req, sta, cli, tmr, hist, twin, sp>>

Forget ==
    /\ gen.pc = "sent"
    /\ gen' = NoGen
    /\ UNCHANGED <<now, requestCounts, resetTime, admitted, last, snapshot, env, req, sta, cli, tmr, hist, twin, sp>>

InitTemplates ==
    /\ LimInit
    /\ snapshot \in {"local", "mock"}
    /\ env = NoEnv
    /\ req = [r \in ReqIds |-> IdleReq]
    /\ sta = IdleSta
    /\ cli = IdleCli
    /\ gen = NoGen
    /\ tmr = NoTimer
    /\ hist = NoHist
    /\ twin = NoTwin
    /\ sp = IdleSp

NextTemplates ==
    \/ \E topic \in Topics, category \in Categories, timeframe \in Timeframes,
          u1 \in RandNums, u2 \in RandNums, u3 \in RandNums, stamp \in Stamps :
          Generate(topic, category, timeframe, u1, u2, u3, stamp)
    \/ ResJson
    \/ Forget

SpecTemplates == InitTemplates /\ [][NextTemplates]_vars

-----------------------------------------------------------------------------
(* The App component: handleSubmit plays the pipeline animation             *)
(* (simulatePipelineProcessing) and asks the server for the prediction      *)
(* through getPrediction.  The submit button is disabled while loading.     *)

FirstProgress == 10

nextProgress_twenty(progress) == progress + 20

(* progress += 10 *)
nextProgress(progress) == progress + 10

startStage_skip(c, i) ==
    LET k == IF i + 1 <= Len(c.steps) THEN i + 1 ELSE i
    IN  [c EXCEPT !.i = k, !.progress = FirstProgress, !.delay = stepDurations[k] \div 10,
                  !.steps[k] = [status |-> "processing", progress |-> 0],
                  !.submit = "timer"]

(* for (let i ...): stage i is set to processing with progress 0 and the    *)
(* first setTimeout of its inner loop is awaited                            *)
startStage(c, i) ==
    [c EXCEPT !.i = i, !.progress = FirstProgress, !.delay = stepDurations[i] \div 10,
              !.steps[i] = [status |-> "processing", progress |-> 0],
              !.submit = "timer"]

handleSubmit_catch_no_finally(c, errorMessage) ==
    [c EXCEPT !.error = errorMessage, !.submit = "idle", !.pc = "idle"]

(* the catch and finally blocks of handleSubmit *)
handleSubmit_catch(c, errorMessage) ==
    LET processing == {k \in 1 .. Len(c.steps) : c.steps[k].status = "processing"}
        lastActiveIndex == IF processing = {} THEN 0
                           ELSE CHOOSE k \in processing : \A j \in processing : k <= j
    IN  [c EXCEPT !.error = errorMessage,
                  !.steps = IF lastActiveIndex > 0
                            THEN [c.steps EXCEPT ![lastActiveIndex].status = "error"]
                            ELSE c.steps,
                  !.loading = FALSE, !.submit = "idle", !.pc = "idle"]

(* handleSubmit once handleApiRequest has settled (c.pc = "done") *)
handleSubmit_settle(c) ==
    IF c.resolved
    THEN [c EXCEPT !.results = TRUE, !.loading = FALSE, !.submit = "idle", !.pc = "idle"]
    ELSE handleSubmit_catch(c, c.rejected)

(* handleSubmit after `await simulatePipelineProcessing()`: getPrediction *)
handleSubmit_request(c, t) ==
    LET c1 == handleApiRequest_begin([c EXCEPT !.submit = "request"], t)
    IN  IF c1.pc = "done" THEN handleSubmit_settle(c1) ELSE c1

handleSubmit_begin_decoupled(c, topic) ==
    IF trim(topic) = <<>>
    THEN [c EXCEPT !.error = "Please enter a prediction topic"]
    ELSE LET c1 == startStage([c EXCEPT !.loading = TRUE, !.error = "", !.results = FALSE,
                                 !.steps = [k \in 1 .. Len(c.steps) |-> PendingStep],
                                 !.incs = [k \in 1 .. Len(c.steps) |-> 0]], 1)
         IN  [c1 EXCEPT !.pc = "await", !.sent = c1.sent + 1,
                        !.requestCount = c1.requestCount + 1]

handleSubmit_begin_notrim(c, topic) ==
    IF topic = <<>>
    THEN [c EXCEPT !.error = "Please enter a prediction topic"]
    ELSE startStage([c EXCEPT !.loading = TRUE, !.error = "", !.results = FALSE,
                              !.steps = [k \in 1 .. Len(c.steps) |-> PendingStep],
                              !.incs = [k \in 1 .. Len(c.steps) |-> 0]], 1)

(* handleSubmit up to its first await *)
handleSubmit_begin(c, topic) ==
    IF trim(topic) = <<>>
    THEN [c EXCEPT !.error = "Please enter a prediction topic"]
    ELSE startStage([c EXCEPT !.loading = TRUE, !.error = "", !.results = FALSE,
                              !.steps = [k \in 1 .. Len(c.steps) |-> PendingStep],
                              !.incs = [k \in 1 .. Len(c.steps) |-> 0]], 1)

(* simulatePipelineProcessing resumes after a setTimeout of its inner loop *)
simulatePipelineProcessing_resume(c, t) ==
    LET i == c.i
        c1 == [c EXCEPT !.steps[i].progress = c.progress, !.incs[i] = c.incs[i] + 1,
                        !.progress = nextProgress(c.progress)]
    IN  IF c1.progress <= 100
        THEN c1
        ELSE LET c2 == [c1 EXCEPT !.steps[i].status = "completed"]
             IN  IF i + 1 <= Len(c.steps)
                 THEN startStage(c2, i + 1)
                 ELSE handleSubmit_request(c2, t)

SubmitTopics == {<<>>, <<" ">>, <<"x">>, <<" ", "x", " ">>}

Submit(topic) ==
    /\ cli.submit = "idle" /\ ~cli.loading
    /\ cli' = [handleSubmit_begin(cli, topic) EXCEPT !.blank = (trim(topic) = <<>>)]
    /\ UNCHANGED <<now, requestCounts, resetTime, admitted, last, snapshot, env, req, sta, gen, tmr, hist, twin, sp>>

PipelineTimer ==
    /\ cli.submit = "timer"
    /\ cli' = simulatePipelineProcessing_resume(cli, now)
    /\ UNCHANGED <<now, requestCounts, resetTime, admitted, last, snapshot, env, req, sta, gen, tmr, hist, twin, sp>>

(* The server's answer to POST /api/predict arrives, or the request fails *)
PredictionSettles(settlement) ==
    /\ cli.submit = "request" /\ cli.pc = "await"
    /\ settlement # "plain"
    /\ cli' = handleSubmit_settle(handleApiRequest_resume(cli, settlement))
    /\ UNCHANGED <<now, requestCounts, resetTime, admitted, last, snapshot, env, req, sta, gen, tmr, hist, twin, sp>>

NextApp ==
    \/ \E topic \in SubmitTopics : Submit(topic)
    \/ PipelineTimer
    \/ \E settlement \in Settlements : PredictionSettles(settlement)
    \/ TickLimiter

SpecApp == InitClient /\ [][NextApp]_vars

-----------------------------------------------------------------------------
(* Concurrent requests: several POST /api/predict of the Hugging Face       *)
(* snapshot are in flight, each suspended at `await generateAIResponse`     *)
(* while the limiter checks the requests that arrive meanwhile and the      *)
(* clock advances.                                                          *)

ConcReqIds == {"r1", "r2"}

ConcOutcomes ==
    {o \in Outcomes({<<"{", "M", "}">>}) : o.kind \in {"reject", "text"} /\ ~o.apiKeyMsg}

InitConcurrent ==
    /\ LimInit
    /\ snapshot = "hf"
    /\ env = NoEnv
    /\ req = [r \in ConcReqIds |-> IdleReq]
    /\ sta = IdleSta
    /\ cli = IdleCli
    /\ gen = NoGen
    /\ tmr = NoTimer
    /\ hist = NoHist
    /\ twin = NoTwin
    /\ sp = IdleSp

NextConcurrent ==
    \/ \E r \in ConcReqIds, ip \in Ips, field \in {"text", "empty"} :
          Request(r, "predict", ip, field, 0, 0)
    \/ \E r \in ConcReqIds, o \in ConcOutcomes : CompletionSettles(r, o, 0, 0)
    \/ \E r \in ConcReqIds : Close(r)
    \/ TickLimiter

SpecConcurrent == InitConcurrent /\ [][NextConcurrent]_vars

-----------------------------------------------------------------------------
(* The limiter of the OpenAI snapshot: besides the reset inside check, a    *)
(* timer set with setInterval(..., windowMs) clears the counts.  The timer  *)
(* fires windowMs after it last fired or later, by at most MaxLate.         *)

MaxLate == 7500

(* the instants of this specification end at TimerHorizon *)
TimerHorizon == 75000

CheckTimed(ip) ==
    /\ LimiterStep(ip)
    /\ LET r == rateLimiter_check(requestCounts, resetTime, now, ip)
       IN  tmr' = IF r.status = 0
                  THEN [tmr EXCEPT !.sinceFire[ip] = tmr.sinceFire[ip] + 1,
                                   !.firstAdmit[ip] =
                                       IF tmr.firstAdmit[ip] = -1 THEN now
                                       ELSE tmr.firstAdmit[ip]]
                  ELSE tmr
    /\ UNCHANGED <<now, snapshot, env, req, sta, cli, gen, hist, twin, sp>>

IntervalFires ==
    /\ now >= tmr.lastFire + windowMs
    /\ LET r == setInterval_callback(requestCounts, now)
       IN  /\ requestCounts' = r.counts
           /\ resetTime' = r.resetTime
    /\ admitted' = [i \in Ips |-> 0]
    /\ last' = NoCall
    /\ tmr' = [NoTimer EXCEPT !.lastFire = now]
    /\ UNCHANGED <<now, snapshot, env, req, sta, cli, gen, hist, twin, sp>>

TickTimed ==
    /\ now + TickMs <= tmr.lastFire + windowMs + MaxLate
    /\ now + TickMs <= TimerHorizon
    /\ Tick
    /\ UNCHANGED <<snapshot, env, req, sta, cli, gen, tmr, hist, twin, sp>>

InitTimer ==
    /\ LimInit
    /\ snapshot = "openai"
    /\ env = NoEnv
    /\ req = [r \in ReqIds |-> IdleReq]
    /\ sta = IdleSta
    /\ cli = IdleCli
    /\ gen = NoGen
    /\ tmr = NoTimer
    /\ hist = NoHist
    /\ twin = NoTwin
    /\ sp = IdleSp

NextTimer ==
    \/ \E ip \in Ips : CheckTimed(ip)
    \/ IntervalFires
    \/ TickTimed

SpecTimer == InitTimer /\ [][NextTimer]_vars

-----------------------------------------------------------------------------
(* The limiter under observation: as in SpecLimiter, with the history of    *)
(* the denials and of the calls admitted in one interval of length windowMs *)
(* that starts at an instant of the observer's choice.                      *)

CheckObserved(ip) ==
    /\ LimiterStep(ip)
    /\ LET r == rateLimiter_check(requestCounts, resetTime, now, ip)
       IN  hist' = IF ip # Observed THEN [hist EXCEPT !.found = -1]
                   ELSE [hist EXCEPT
                           !.found = hist.retryAt,
                           !.retryAt = IF r.status = 429 THEN now + 1000 * r.retryAfter
                                       ELSE -1,
                           !.count = IF r.status = 0 /\ hist.start >= 0
                                     THEN hist.count + 1 ELSE hist.count]
    /\ UNCHANGED <<now, snapshot, env, req, sta, cli, gen, tmr, twin, sp>>

(* The interval under observation starts now. *)
Observe ==
    /\ hist.start = -1
    /\ hist' = [hist EXCEPT !.start = now, !.found = -1]
    /\ last' = NoCall
    /\ UNCHANGED <<now, requestCounts, resetTime, admitted, snapshot, env, req, sta, cli,
                   gen, tmr, twin, sp>>

(* The clock advances; the interval is over once the clock has passed its   *)
(* last instant, start + windowMs.                                          *)
TickObserved ==
    /\ Tick
    /\ hist' = IF hist.start >= 0 /\ now' > hist.start + windowMs
               THEN [hist EXCEPT !.start = -2, !.count = 0, !.found = -1]
               ELSE [hist EXCEPT !.found = -1]
    /\ UNCHANGED <<snapshot, env, req, sta, cli, gen, tmr, twin, sp>>

NextObserved ==
    \/ TickObserved
    \/ \E ip \in Ips : CheckObserved(ip)
    \/ Observe

SpecObserved == InitLimiter /\ [][NextObserved]_vars

-----------------------------------------------------------------------------
(* Two runs of the limiter side by side.  The observed identifier makes the *)
(* same calls at the same instants in both; the other identifiers call in   *)
(* one run or the other as they please.                                     *)

(* the observed identifier calls rateLimiter.check in both runs *)
TwinCall ==
    /\ LimiterStep(Observed)
    /\ LET r == rateLimiter_check(twin.counts, twin.resetTime, now, Observed)
       IN  twin' = [counts |-> r.counts, resetTime |-> r.resetTime,
                    rtBefore |-> twin.resetTime, status |-> r.status]
    /\ UNCHANGED <<now, snapshot, env, req, sta, cli, gen, tmr, hist, sp>>

(* another identifier calls rateLimiter.check in one of the runs *)
OtherCall(ip, run) ==
    /\ ip # Observed
    /\ IF run = 1
       THEN /\ LimiterStep(ip)
            /\ twin' = [twin EXCEPT !.rtBefore = -1, !.status = -1]
       ELSE /\ LET r == rateLimiter_check(twin.counts, twin.resetTime, now, ip)
               IN  twin' = [counts |-> r.counts, resetTime |-> r.resetTime,
                            rtBefore |-> -1, status |-> -1]
            /\ last' = NoCall
            /\ UNCHANGED <<requestCounts, resetTime, admitted>>
    /\ UNCHANGED <<now, snapshot, env, req, sta, cli, gen, tmr, hist, sp>>

NextTwin ==
    \/ TickLimiter
    \/ TwinCall
    \/ \E ip \in Ips, run \in {1, 2} : OtherCall(ip, run)

SpecTwin == InitLimiter /\ [][NextTwin]_vars

(* The App component with the fairness its scheduling gives: a timer that   *)
(* was set fires, and the request sent to the server settles (with a value  *)
(* or an error: axios rejects when the connection fails or times out).      *)
(* The submissions of this specification are made within the first window   *)
(* of the client's throttle: the eleventh and later ones are denied by it.  *)
NextAppFair ==
    \/ \E topic \in SubmitTopics : Submit(topic)
    \/ PipelineTimer
    \/ \E settlement \in Settlements : PredictionSettles(settlement)

SpecAppFair ==
    /\ InitClient /\ [][NextAppFair]_vars
    /\ WF_vars(PipelineTimer)
    /\ WF_vars(\E settlement \in Settlements : PredictionSettles(settlement))

-----------------------------------------------------------------------------
(* SpeechInputField: the microphone button, the 300 ms start timer, the 800 *)
(* ms processing timer and the component's effects.  Instants are not       *)
(* modelled: a timer that is pending may fire at any later step.            *)

(* pending 800 ms timers at most *)
MaxProcessing == 2

(* clearTimeout(startTimeoutRef.current), called when the ref is not null:  *)
(* the timer the ref names will not fire.                                   *)
clearTimeout_noop(s) ==
    s

clearTimeout(s) ==
    [s EXCEPT !.startTimeoutRef = IF @ = "live" THEN "stale" ELSE @]

(* The body of handleStartListening.  The assignment to the ref forgets the *)
(* timer it named: if that one is still pending it is counted in orphans.   *)
handleStartListening(s) ==
    LET s1 == IF s.startTimeoutRef # "null" THEN clearTimeout(s) ELSE s
    IN  [s1 EXCEPT !.errorMessage = "",
                   !.isListening = TRUE,
                   !.transcript = "",
                   !.orphans = @ + (IF s1.startTimeoutRef = "live" THEN 1 ELSE 0),
                   !.startTimeoutRef = "live",
                   !.stopped = FALSE, !.cancelled = FALSE, !.op = "start"]

(* The body of handleStopListening. *)
handleStopListening(s) ==
    LET s1 == IF s.startTimeoutRef # "null" THEN clearTimeout(s) ELSE s
        s2 == IF s.startTimeoutRef # "null"
              THEN [s1 EXCEPT !.orphans = @ + (IF s1.startTimeoutRef = "live" THEN 1 ELSE 0),
                              !.startTimeoutRef = "null"]
              ELSE s1
    IN  [s2 EXCEPT !.listening = FALSE,
                   !.isListening = FALSE,
                   !.isProcessing = TRUE,
                   !.processing = @ + 1,
                   !.stopped = TRUE,
                   !.cancelled = (s.startTimeoutRef = "live"),
                   !.op = "stop"]

(* The cleanup function of the effect on [isListening]; isListening is the  *)
(* value its closure captured.                                              *)
cleanup(s, isListening) ==
    LET s1 == IF s.startTimeoutRef # "null" THEN clearTimeout(s) ELSE s
    IN  IF isListening THEN [s1 EXCEPT !.listening = FALSE] ELSE s1

(* React renders and commits after a step whose body took the committed     *)
(* state s to b.  The effects of the last commit that have not run yet run  *)
(* first: the cleanup (it captured the isListening before that commit, the  *)
(* opposite of the committed one) and setIsListening(listening).  Then the  *)
(* new commit leaves its own effects to run: the one on [listening] when    *)
(* listening changed, the cleanup when isListening changed.                 *)
render(s, b) ==
    LET c == IF s.pendC THEN cleanup(b, ~s.isListening) ELSE b
        is == IF s.pendL THEN s.listening ELSE c.isListening
    IN  [c EXCEPT !.isListening = is,
                  !.pendC = (is # s.isListening),
                  !.pendL = (c.listening # s.listening)]

(* onClick={isListening ? handleStopListening : handleStartListening} *)
Click ==
    /\ sp.isListening => sp.processing < MaxProcessing
    /\ sp' = render(sp, IF sp.isListening THEN handleStopListening(sp)
                                          ELSE handleStartListening(sp))
    /\ UNCHANGED <<now, requestCounts, resetTime, admitted, last, snapshot, env, req, sta, cli, gen, tmr, hist, twin>>

(* A pending start timer fires: the one the ref names or one it no longer   *)
(* names.  SpeechRecognition.startListening is invoked and resolves         *)
(* (listening becomes true) or rejects (the catch block).                   *)
StartTimeoutFires(timer, outcome) ==
    /\ IF timer = "ref" THEN sp.startTimeoutRef = "live" ELSE sp.orphans > 0
    /\ LET s1 == IF timer = "ref" THEN [sp EXCEPT !.startTimeoutRef = "stale"]
                                  ELSE [sp EXCEPT !.orphans = @ - 1]
           s2 == [s1 EXCEPT !.fired = TRUE, !.late = @ \/ sp.stopped, !.op = "fire"]
       IN  sp' = render(sp, IF outcome = "ok"
                            THEN [s2 EXCEPT !.listening = TRUE]
                            ELSE [s2 EXCEPT !.errorMessage = "Failed to start voice recognition. Please try again.",
                                            !.isListening = FALSE])
    /\ UNCHANGED <<now, requestCounts, resetTime, admitted, last, snapshot, env, req, sta, cli, gen, tmr, hist, twin>>

(* setTimeout(() => setIsProcessing(false), 800) *)
ProcessingTimeoutFires ==
    /\ sp.processing > 0
    /\ sp' = render(sp, [sp EXCEPT !.processing = @ - 1, !.isProcessing = FALSE,
                                   !.op = "processed"])
    /\ UNCHANGED <<now, requestCounts, resetTime, admitted, last, snapshot, env, req, sta, cli, gen, tmr, hist, twin>>

(* The browser's recognition, while it listens, reports words (the hook's   *)
(* transcript) or ends (the hook's listening becomes false).                *)
Recognition(event) ==
    /\ sp.listening
    /\ sp' = render(sp, IF event = "result"
                        THEN [sp EXCEPT !.transcript = "words", !.op = "result"]
                        ELSE [sp EXCEPT !.listening = FALSE, !.op = "end"])
    /\ UNCHANGED <<now, requestCounts, resetTime, admitted, last, snapshot, env, req, sta, cli, gen, tmr, hist, twin>>

(* The effects of the last commit run before anything else happens. *)
FlushEffects ==
    /\ sp.pendC \/ sp.pendL
    /\ sp' = render(sp, [sp EXCEPT !.op = "effects"])
    /\ UNCHANGED <<now, requestCounts, resetTime, admitted, last, snapshot, env, req, sta, cli, gen, tmr, hist, twin>>

NextSpeech ==
    \/ Click
    \/ \E timer \in {"ref", "orphan"}, outcome \in {"ok", "throw"} : StartTimeoutFires(timer, outcome)
    \/ ProcessingTimeoutFires
    \/ \E event \in {"result", "end"} : Recognition(event)
    \/ FlushEffects

SpecSpeech == InitClient /\ [][NextSpeech]_vars

-----------------------------------------------------------------------------
(* C1: in one window (between two clears of the counts) at most maxRequests  *)
(* calls of an identifier are admitted, and a call is answered 429 exactly   *)
(* when maxRequests calls of its identifier were admitted before it in the   *)
(* window: the (maxRequests+1)-th call is denied, no earlier one is.         *)
C1_ThrottleBound ==
    /\ \A ip \in Ips : admitted[ip] <= maxRequests
    /\ last.ip # "none" =>
          /\ (last.status = 429) <=> (last.prior >= maxRequests)
          /\ (last.status = 0) <=> (last.prior < maxRequests)
          /\ last.status = 429 => admitted[last.ip] = last.prior

C1_Witness ==
    /\ last.ip # "none"
    /\ last.status = 429
    /\ last.prior = maxRequests
    /\ admitted[last.ip] = maxRequests

(* C2 as stated: once the clock has reached the stored resetTime             *)
(* (now >= resetTime), the call of a denied identifier clears all counts,    *)
(* sets resetTime to now + windowMs and is admitted.                         *)
C2_Original ==
    (last.ip # "none" /\ last.before >= maxRequests /\ now >= last.rtBefore) =>
        /\ last.status = 0
        /\ requestCounts = [i \in Ips |-> IF i = last.ip THEN 1 ELSE 0]
        /\ resetTime = now + windowMs

(* C2 amended: once the clock has passed the stored resetTime                *)
(* (now > resetTime), the call of a denied identifier clears all counts,     *)
(* sets resetTime to now + windowMs and is admitted; at now = resetTime the  *)
(* call is still denied and nothing changes.                                 *)
C2_WindowReset ==
    /\ (last.ip # "none" /\ last.before >= maxRequests /\ now > last.rtBefore) =>
          /\ last.status = 0
          /\ requestCounts = [i \in Ips |-> IF i = last.ip THEN 1 ELSE 0]
          /\ resetTime = now + windowMs
    /\ (last.ip # "none" /\ last.before >= maxRequests /\ now = last.rtBefore) =>
          /\ last.status = 429
          /\ resetTime = last.rtBefore
          /\ requestCounts[last.ip] = last.before

C2_Witness ==
    /\ last.ip # "none"
    /\ last.before >= maxRequests
    /\ now > last.rtBefore
    /\ last.status = 0
    /\ \E i \in Ips : i # last.ip /\ requestCounts[i] = 0

(* C3: a check made when no reset is due (now <= resetTime) and answered 429 *)
(* changes no count and not resetTime; one that is admitted adds exactly 1   *)
(* to the caller's count and changes no other count and not resetTime.       *)
C3_CheckEffect ==
    [][(last'.ip # "none" /\ ~(now > resetTime)) =>
          /\ resetTime' = resetTime
          /\ IF last'.status = 429
             THEN requestCounts' = requestCounts
             ELSE requestCounts' =
                    [requestCounts EXCEPT ![last'.ip] = requestCounts[last'.ip] + 1]]_vars

C3_Witness ==
    /\ last.ip # "none"
    /\ last.status = 0
    /\ now <= last.rtBefore
    /\ \E i \in Ips : i # last.ip /\ requestCounts[i] > 0

(* C4: the retryAfter of a 429 is the least whole number of seconds that is  *)
(* not less than (resetTime - now) / 1000, and lies in 0 .. windowMs / 1000. *)
C4_RetryAfter ==
    (last.ip # "none" /\ last.status = 429) =>
        /\ last.retryAfter \in 0 .. (windowMs \div 1000)
        /\ 1000 * last.retryAfter >= resetTime - now
        /\ 1000 * (last.retryAfter - 1) < resetTime - now

C4_Witness ==
    /\ last.ip # "none"
    /\ last.status = 429
    /\ (resetTime - now) % 1000 # 0
    /\ last.retryAfter > 0

-----------------------------------------------------------------------------
(* C5 as stated: every POST /api/predict whose topic is empty or missing is  *)
(* answered 400 and generatePredictionData is not invoked for it.            *)
C5_Original ==
    \A r \in ReqIds :
        (req[r].route = "predict" /\ req[r].field \in {"missing", "empty"}
            /\ req[r].pc = "done") =>
            /\ req[r].status = 400
            /\ req[r].synth = 0

(* C5 amended: a POST /api/predict whose topic is empty or missing is        *)
(* answered 400 when the rate limiter admits it and 429 when it does not;    *)
(* in both cases generatePredictionData is not invoked and no completion     *)
(* request is sent.                                                          *)
C5_EmptyTopic ==
    \A r \in ReqIds :
        (req[r].route = "predict" /\ req[r].field \in {"missing", "empty"}) =>
            /\ req[r].pc = "done"
            /\ req[r].nResp = 1
            /\ req[r].entered => req[r].status = 400
            /\ ~req[r].entered => req[r].status = 429
            /\ req[r].synth = 0
            /\ \A p \in Prompts : req[r].sent[p] = 0

C5_Witness ==
    \E r \in ReqIds :
        /\ req[r].route = "predict" /\ req[r].field = "empty"
        /\ req[r].pc = "done" /\ req[r].status = 400 /\ req[r].synth = 0

(* C6: a POST /api/predict is answered at most once, a finished one exactly  *)
(* once, with 200 (a prediction result), 400 (topic empty or missing), 429   *)
(* (not admitted: the route handler is never entered) or 500 (generation     *)
(* was started and failed).                                                  *)
C6_OneResponse ==
    \A r \in ReqIds :
        req[r].route = "predict" =>
            /\ req[r].nResp <= 1
            /\ (req[r].pc = "done") <=> (req[r].nResp = 1)
            /\ req[r].nResp = 1 => req[r].status \in {200, 400, 429, 500}
            /\ req[r].status = 429 => (~req[r].entered /\ req[r].synth = 0)
            /\ req[r].status = 400 => req[r].field \in {"missing", "empty"}
            /\ req[r].status = 500 => req[r].synth = 1
            /\ req[r].status = 200 => (req[r].synth = 1 /\ req[r].conf # 0)

C6_Witness ==
    \E r \in ReqIds :
        /\ req[r].route = "predict" /\ req[r].pc = "done"
        /\ req[r].status = 429 /\ req[r].nResp = 1 /\ ~req[r].entered

(* C7: every result generatePredictionData returns for a non-empty topic,    *)
(* in every snapshot, has a confidence in 50 .. 95 and a trend among up,     *)
(* down and neutral.                                                         *)
C7_ConfidenceTrend ==
    \A r \in ReqIds :
        (req[r].route = "predict" /\ req[r].status = 200) =>
            /\ req[r].field = "text"
            /\ req[r].conf \in 50 .. 95
            /\ req[r].trend \in {"up", "down", "neutral"}

C7_Witness ==
    \E r \in ReqIds :
        /\ snapshot = "deepseek"
        /\ req[r].route = "predict" /\ req[r].status = 200
        /\ req[r].conf = 95 /\ req[r].trend = "down" /\ ~req[r].mock

(* C8: the status report (GET /api/status, getApiStatus) gives 'disabled'    *)
(* for every dependency whose environment variable is unset, and sends no    *)
(* request to that dependency.                                               *)
C8_Original ==
    LET deps == StatusDeps(snapshot, sta.who)
    IN  sta.pc # "idle" =>
          \A k \in 1 .. Len(deps) :
              (deps[k].var # "" /\ env[deps[k].var] = "unset") =>
                  /\ deps[k].name \notin sta.probed
                  /\ k <= Len(sta.report) => sta.report[k] = "disabled"

(* The snapshots that do check the variable first reach a report with a      *)
(* disabled dependency that was not probed.                                  *)
C8_Witness ==
    /\ sta.pc = "done"
    /\ snapshot = "deepseek"
    /\ env["DEEPSEEK_API_KEY"] = "unset"
    /\ sta.report[1] = "disabled"
    /\ sta.probed = {}

(* C9: POST /api/text-to-speech, when the limiter admits it, answers 400 if  *)
(* text is missing, 500 if VOICERSS_API_KEY is unset, otherwise 200.         *)
C9_Original ==
    \A r \in ReqIds :
        (req[r].route = "tts" /\ req[r].pc = "done" /\ req[r].status # 429) =>
            /\ req[r].field \in {"missing", "empty"} => req[r].status = 400
            /\ (req[r].field = "text" /\ env["VOICERSS_API_KEY"] = "unset") =>
                  req[r].status = 500
            /\ (req[r].field = "text" /\ env["VOICERSS_API_KEY"] # "unset") =>
                  req[r].status = 200

(* C10 as stated: in the remote snapshots, when a completion call fails or   *)
(* the reply cannot be parsed, POST /api/predict answers 500, and no prompt  *)
(* is sent twice for one request.                                            *)
C10_Original ==
    \A r \in ReqIds :
        (snapshot \in RemoteSnapshots /\ req[r].route = "predict") =>
            /\ (req[r].aiFailed /\ req[r].pc = "done") => req[r].status = 500
            /\ \A p \in Prompts : req[r].sent[p] <= 1

(* C10 amended: in the remote snapshots, when a completion call fails or the *)
(* reply cannot be parsed, POST /api/predict answers 500 and the request     *)
(* ends, except in the DeepSeek snapshot where a failed call is replaced by  *)
(* the mock reply; no prompt is sent twice for one request.                  *)
C10_RemoteFailure ==
    \A r \in ReqIds :
        (snapshot \in RemoteSnapshots /\ req[r].route = "predict") =>
            /\ req[r].aiThrown => (req[r].pc = "done" /\ req[r].status = 500)
            /\ (req[r].aiFailed /\ ~req[r].aiThrown) =>
                  (snapshot = "deepseek" /\ req[r].mock)
            /\ \A p \in Prompts : req[r].sent[p] <= 1

C10_Witness ==
    \E r \in ReqIds :
        /\ snapshot = "hf" /\ req[r].route = "predict"
        /\ req[r].aiThrown /\ req[r].pc = "done" /\ req[r].status = 500
        /\ req[r].sent["prediction"] = 1

-----------------------------------------------------------------------------
(* C11: in the remote snapshots every 200 answer of POST /api/predict holds  *)
(* the five keys prediction, dataPoints, variables, historicalPatterns and   *)
(* alternativeScenarios of the model's reply; a reply that parses but lacks  *)
(* one of them is never answered 200.                                        *)
C11_Original ==
    \A r \in ReqIds :
        (snapshot \in RemoteSnapshots /\ req[r].route = "predict"
            /\ req[r].status = 200) => req[r].keys = "object5"

(* A reply with the five keys is answered 200 with all of them. *)
C11_Witness ==
    \E r \in ReqIds :
        /\ snapshot \in RemoteSnapshots /\ req[r].route = "predict"
        /\ req[r].status = 200 /\ req[r].keys = "object5" /\ ~req[r].mock

(* C12: when the throttle of handleApiRequest denies a call (requestCount    *)
(* has reached MAX_REQUESTS_PER_MINUTE in the current window), the caller    *)
(* receives an error whose message is 'Rate limit exceeded. Please try       *)
(* again later.'                                                             *)
C12_Original ==
    (cli.pc = "done" /\ cli.denied) => cli.rejected = RateLimitMessage

(* The denied call is rejected, and no request leaves the client for it. *)
C12_Witness ==
    /\ cli.pc = "done" /\ cli.denied
    /\ cli.rejected # "" /\ cli.requestCount = MAX_REQUESTS_PER_MINUTE
    /\ cli.sent = MAX_REQUESTS_PER_MINUTE

(* C13: in the template synthesizer, for category 'finance' the prediction   *)
(* is one of the three templates of the result's trend (up, down, neutral    *)
(* each have their own three), with the request's topic unchanged in the     *)
(* place of ${topic} and every other part of the template as written.        *)
C13_FinanceTemplates ==
    (gen.pc = "made" /\ gen.request.category = Str("finance")) =>
        LET own == CASE gen.result.trend = "up" -> financePredictions.upPredictions
                     [] gen.result.trend = "down" -> financePredictions.downPredictions
                     [] OTHER -> financePredictions.neutralPredictions
            p == gen.result.prediction
        IN  /\ Len(own) = 3
            /\ \E k \in 1 .. 3 :
                  /\ Len(p) = Len(own[k])
                  /\ \A i \in 1 .. Len(p) :
                        CASE own[k][i] = "${topic}" -> p[i] = gen.request.topic.v
                          [] own[k][i] = "${formatTimeframe(timeframe)}" ->
                                p[i] \in {"week", "month", "three months", "six months",
                                          "year", "five years", "coming period"}
                          [] OTHER -> p[i] = own[k][i]

C13_Witness ==
    /\ gen.pc = "made" /\ gen.request.category = Str("finance")
    /\ gen.result.trend = "up"
    /\ gen.request.topic = Str(" ${topic} ")
    /\ gen.result.prediction[1] = "Analysis indicates an upward trajectory for "
    /\ gen.result.prediction[2] = " ${topic} "

(* C14: in the template synthesizer, for every category value (the six      *)
(* recognised ones and any other, which takes the default lists) the result *)
(* echoes the request's topic, category and timeframe and has exactly 5     *)
(* dataPoints, 5 variables, 3 historicalPatterns and 3 alternativeScenarios.*)
C14_ListSizes ==
    gen.pc = "made" =>
        /\ gen.result.topic = gen.request.topic
        /\ gen.result.category = gen.request.category
        /\ gen.result.timeframe = gen.request.timeframe
        /\ Len(gen.result.dataPoints) = 5
        /\ Len(gen.result.variables) = 5
        /\ Len(gen.result.historicalPatterns) = 3
        /\ Len(gen.result.alternativeScenarios) = 3
        /\ gen.request.category \notin
              {Str("finance"), Str("sports"), Str("entertainment"), Str("global"),
               Str("environment"), Str("technology")} =>
              /\ gen.result.prediction = defaultPrediction
              /\ gen.result.dataPoints = default_case.dataPoints

C14_Witness ==
    /\ gen.pc = "made"
    /\ gen.request.category = Str("weather")
    /\ gen.result.category = Str("weather")
    /\ Len(gen.result.dataPoints) = 5
    /\ gen.result.variables[1] = <<"Unexpected developments in related areas">>

(* C15: while simulatePipelineProcessing runs, the five stages are walked in *)
(* list order: at most one stage is 'processing', every stage before it is   *)
(* 'completed' and every stage after it 'pending' (none is skipped), and a   *)
(* completed stage stays completed until the next submit (none is revisited).*)
C15_PipelineOrder ==
    /\ [](\A k \in 1 .. Len(StepNames) :
            /\ cli.steps[k].status \in {"pending", "processing", "completed"}
            /\ cli.steps[k].status \in {"processing", "completed"} =>
                  \A j \in 1 .. k - 1 : cli.steps[j].status = "completed"
            /\ cli.steps[k].status = "processing" =>
                  /\ cli.loading /\ cli.i = k
                  /\ \A j \in k + 1 .. Len(StepNames) : cli.steps[j].status = "pending")
    /\ [][\A k \in 1 .. Len(StepNames) :
            /\ (cli.steps[k].status = "completed" /\ cli.loading /\ cli'.loading) =>
                  cli'.steps[k].status = "completed"
            /\ (cli.steps[k].status # "processing" /\ cli'.steps[k].status = "processing") =>
                  /\ cli.steps[k].status = "pending" \/ ~cli.loading
                  /\ \A j \in 1 .. k - 1 : cli'.steps[j].status = "completed"]_vars

C15_Witness ==
    /\ cli.loading
    /\ cli.steps[4].status = "processing"
    /\ \A j \in 1 .. 3 : cli.steps[j].status = "completed"
    /\ cli.steps[5].status = "pending"

(* C16: while a stage is 'processing' its progress is one of 0, 10, ..., 100,*)
(* it never decreases and grows by 10 with each timed increment, and the     *)
(* stage is 'completed' only after exactly 10 increments, with progress 100. *)
C16_PipelineProgress ==
    /\ [](\A k \in 1 .. Len(StepNames) :
            LET s == cli.steps[k]
            IN  /\ s.status = "pending" => (s.progress = -1 /\ cli.incs[k] = 0)
                /\ s.status = "processing" =>
                      /\ s.progress \in {10 * n : n \in 0 .. 10}
                      /\ s.progress = 10 * cli.incs[k]
                /\ s.status = "completed" => (s.progress = 100 /\ cli.incs[k] = 10))
    /\ [][\A k \in 1 .. Len(StepNames) :
            (cli.steps[k].status = "processing"
                /\ cli'.steps[k].status \in {"processing", "completed"}) =>
                /\ cli'.steps[k].progress >= cli.steps[k].progress
                /\ cli'.steps[k].progress <= cli.steps[k].progress + 10
                /\ cli'.steps[k].status = "completed" => cli.steps[k].progress = 90]_vars

C16_Witness ==
    /\ cli.steps[2].status = "completed" /\ cli.steps[2].progress = 100
    /\ cli.incs[2] = 10
    /\ cli.steps[3].status = "processing" /\ cli.steps[3].progress = 70

(* C17 as stated: the animation is decoupled from the prediction request,    *)
(* so that the answer can arrive before the animation has completed: while   *)
(* the animation of a submit runs, the request of that submit is in flight.  *)
C17_Original ==
    cli.submit = "timer" => cli.pc = "await"

(* C17 amended: handleSubmit awaits the whole animation before it calls      *)
(* getPrediction: while a stage is not yet completed no request is in flight *)
(* and no answer has been taken, so the animation always completes before    *)
(* the answer arrives, and the answer never arrives before it.               *)
C17_AnimationFirst ==
    /\ [](cli.loading =>
            /\ (\E k \in 1 .. Len(StepNames) : cli.steps[k].status # "completed") =>
                  (cli.pc = "idle" /\ cli.submit = "timer" /\ ~cli.results)
            /\ cli.pc = "await" =>
                  (cli.submit = "request"
                      /\ \A k \in 1 .. Len(StepNames) : cli.steps[k].status = "completed"))
    /\ [][(cli'.sent # cli.sent \/ (cli'.results /\ ~cli.results)) =>
             \A k \in 1 .. Len(StepNames) : cli'.steps[k].status = "completed"]_vars

(* the animation has completed and the answer has not arrived yet *)
C17_Witness ==
    /\ cli.loading /\ cli.pc = "await" /\ cli.submit = "request"
    /\ \A k \in 1 .. Len(StepNames) : cli.steps[k].status = "completed"

(* C18: with request handlers suspended at their await while other requests  *)
(* are checked, each rateLimiter.check acts as one step: the count of an     *)
(* identifier is the number of its calls admitted in the window, it never    *)
(* exceeds maxRequests, and a call is denied exactly when maxRequests calls  *)
(* of its identifier were admitted before it in the window.                  *)
C18_NoRace ==
    /\ \A ip \in Ips :
          /\ requestCounts[ip] = admitted[ip]
          /\ requestCounts[ip] <= maxRequests
          /\ admitted[ip] <= maxRequests
    /\ last.ip # "none" => ((last.status = 429) <=> (last.prior >= maxRequests))

(* a call is denied while another request, admitted earlier, is suspended *)
C18_Witness ==
    /\ req["r1"].pc = "awaitAI"
    /\ req["r2"].pc = "done" /\ req["r2"].status = 429
    /\ last.ip # "none" /\ last.status = 429
    /\ requestCounts[last.ip] = maxRequests

(* C20 as stated: in the snapshot with the setInterval timer, in any period  *)
(* of windowMs between two consecutive firings of the timer (which may fire  *)
(* late) at most maxRequests calls of an identifier are admitted.            *)
C20_Original ==
    \A ip \in Ips :
        (tmr.firstAdmit[ip] >= 0 /\ now - tmr.firstAdmit[ip] <= windowMs) =>
            tmr.sinceFire[ip] <= maxRequests

(* C20 amended: between two consecutive clears of the counts (by the timer   *)
(* or inside check) at most maxRequests calls of an identifier are admitted; *)
(* between two consecutive firings of the timer the same holds as long as    *)
(* check made no reset of its own, and when the timer fires late (by less    *)
(* than windowMs) check may reset once in between, so that at most           *)
(* 2 x maxRequests calls are admitted.                                       *)
C20_TimerWindow ==
    \A ip \in Ips :
        /\ requestCounts[ip] = admitted[ip]
        /\ admitted[ip] <= maxRequests
        /\ tmr.sinceFire[ip] <= 2 * maxRequests
        /\ resetTime = tmr.lastFire + windowMs => tmr.sinceFire[ip] <= maxRequests

C20_Witness ==
    \E ip \in Ips :
        /\ tmr.sinceFire[ip] = 2 * maxRequests
        /\ admitted[ip] = maxRequests
        /\ now - tmr.firstAdmit[ip] <= windowMs
        /\ last.ip = ip /\ last.status = 429

(* C19: for every result generatePredictionData produces, serialising it to *)
(* JSON as res.json does and parsing the text back gives an object with the *)
(* same eleven keys and the same value for each.                            *)
C19_Original ==
    gen.pc = "sent" =>
        /\ DOMAIN gen.data = {ResultKeys[i] : i \in 1 .. Len(ResultKeys)}
        /\ \A k \in DOMAIN gen.data : gen.data[k] = gen.result[k]

(* A request that carries category and timeframe gives a result that comes  *)
(* back whole.                                                              *)
C19_Witness ==
    /\ gen.pc = "sent"
    /\ gen.request.category = Str("finance") /\ gen.request.timeframe = Str("1week")
    /\ Len(gen.body) = 11
    /\ \A i \in 1 .. Len(ResultKeys) :
          /\ ResultKeys[i] \in DOMAIN gen.data
          /\ gen.data[ResultKeys[i]] = gen.result[ResultKeys[i]]

(* C21 as stated: a call of an identifier whose last call was answered 429   *)
(* with retryAfter = r at instant t, made at t + r seconds or later, is      *)
(* admitted.                                                                 *)
C21_Original ==
    (last.ip = Observed /\ hist.found >= 0 /\ now >= hist.found) => last.status = 0

(* an identifier denied with retryAfter = r calls again r seconds later or   *)
(* more                                                                      *)
C21_Witness ==
    /\ last.ip = Observed
    /\ hist.found >= 0
    /\ now >= hist.found

-----------------------------------------------------------------------------
(* C22: on /api/predict, /api/text-to-speech and /api/analyze the limiter's  *)
(* check runs before the handler tests the body: a request answered 400 was  *)
(* admitted by the check and added one to its identifier's count, and a      *)
(* request that finds its identifier's count at maxRequests is answered 429  *)
(* without entering the handler, whether its required field is there or not. *)
C22_ThrottleFirst ==
    \A r \in ReqIds :
        /\ (req[r].pc = "done" /\ req[r].status = 400) =>
              /\ last.ip # "none" /\ last.status = 0
              /\ requestCounts[last.ip] = last.before + 1
        /\ (last.ip # "none" /\ last.status = 0) =>
              /\ req[r].entered
              /\ requestCounts[last.ip] = last.before + 1
              /\ Falsy(req[r].field) => (req[r].pc = "done" /\ req[r].status = 400)
        /\ (last.ip # "none" /\ last.before >= maxRequests) =>
              /\ last.status = 429
              /\ req[r].pc = "done" /\ req[r].status = 429 /\ ~req[r].entered
              /\ requestCounts[last.ip] = last.before

(* a POST /api/analyze without company takes the last unit of its ip's quota *)
(* and is answered 400                                                       *)
C22_Witness ==
    \E r \in ReqIds :
        /\ req[r].route = "analyze" /\ req[r].field = "missing"
        /\ req[r].pc = "done" /\ req[r].status = 400
        /\ last.ip # "none" /\ requestCounts[last.ip] = maxRequests

-----------------------------------------------------------------------------
(* C23 as stated: in two runs that agree on the calls of an identifier and   *)
(* differ only in the calls of the others, each call of the identifier gets  *)
(* the same answer in both.                                                  *)
C23_Original ==
    (last.ip = Observed /\ twin.status # -1) => last.status = twin.status

(* C23 amended: the window is shared.  In two runs that agree on the calls   *)
(* of an identifier, a call of it that finds the same resetTime in both runs *)
(* gets the same answer and leaves the same count of the identifier in both, *)
(* whatever the other identifiers did; and while the two runs have the same  *)
(* resetTime the identifier's count is the same in both.                     *)
C23_SharedWindow ==
    /\ (last.ip = Observed /\ twin.status # -1 /\ twin.rtBefore = last.rtBefore) =>
          /\ last.status = twin.status
          /\ requestCounts[Observed] = twin.counts[Observed]
    /\ twin.resetTime = resetTime => requestCounts[Observed] = twin.counts[Observed]

(* the observed identifier is denied in both runs while another identifier   *)
(* has been calling in one of them only                                      *)
C23_Witness ==
    /\ last.ip = Observed /\ twin.status = 429 /\ last.status = 429
    /\ twin.rtBefore = last.rtBefore
    /\ \E ip \in Ips : ip # Observed /\ requestCounts[ip] # twin.counts[ip]

-----------------------------------------------------------------------------
(* C24: where the counts are cleared only inside rateLimiter.check, two      *)
(* consecutive clears are more than windowMs apart (each sets resetTime to   *)
(* its instant plus windowMs, so resetTime grows by more than windowMs), and *)
(* in an interval of length windowMs, wherever it starts, at most            *)
(* 2 * maxRequests calls of an identifier are admitted.                      *)
C24_BurstBound ==
    /\ [](hist.count <= 2 * maxRequests)
    /\ [][resetTime' # resetTime => resetTime' > resetTime + windowMs]_vars

(* an interval of length windowMs in which 2 * maxRequests calls of one      *)
(* identifier were admitted, on both sides of a clear                        *)
C24_Witness ==
    /\ hist.start >= 0
    /\ now = hist.start + TickMs
    /\ hist.count = 2 * maxRequests

-----------------------------------------------------------------------------
(* C25: handleApiRequest passes at most MAX_REQUESTS_PER_MINUTE calls on to  *)
(* requestFn between two consecutive resets of requestCount, and a call it   *)
(* denies is not passed on to requestFn and leaves requestCount (and         *)
(* resetTime) as they were.                                                  *)
C25_ClientThrottle ==
    /\ [](cli.sinceReset <= MAX_REQUESTS_PER_MINUTE)
    /\ [][(cli.pc = "idle" /\ cli'.pc # "idle") =>
             IF cli'.denied
             THEN /\ cli'.pc = "done"
                  /\ cli'.sent = cli.sent
                  /\ cli'.requestCount = cli.requestCount
                  /\ cli'.resetTime = cli.resetTime
             ELSE /\ cli'.pc = "await"
                  /\ cli'.sent = cli.sent + 1]_vars

(* the call after MAX_REQUESTS_PER_MINUTE calls were passed on is denied *)
C25_Witness ==
    /\ cli.pc = "done" /\ cli.denied
    /\ cli.sinceReset = MAX_REQUESTS_PER_MINUTE
    /\ cli.requestCount = MAX_REQUESTS_PER_MINUTE

-----------------------------------------------------------------------------
(* C26 as stated: after a submit that failed (getPrediction rejected inside  *)
(* handleSubmit) exactly one pipeline stage has the status 'error'.          *)
C26_Original ==
    (cli.submit = "idle" /\ ~cli.loading /\ cli.rejected # "" /\ cli.error = cli.rejected) =>
        Cardinality({k \in 1 .. Len(cli.steps) : cli.steps[k].status = "error"}) = 1

(* a submit failed on the server's answer: the error message is shown and    *)
(* every stage is 'completed'                                                *)
C26_Witness ==
    /\ cli.submit = "idle" /\ ~cli.loading
    /\ cli.rejected = "Server error: status - error" /\ cli.error = cli.rejected
    /\ \A k \in 1 .. Len(cli.steps) : cli.steps[k].status = "completed"

-----------------------------------------------------------------------------
(* C27: handleSubmit with a topic that is empty or white space only sets the *)
(* error message and returns: loading stays false, results and pipelineSteps *)
(* are as they were, no timer of the animation is set and handleApiRequest   *)
(* is not called; nothing runs until the next submit.                        *)
C27_BlankTopic ==
    /\ [](cli.blank => (/\ cli.submit = "idle" /\ ~cli.loading /\ cli.pc = "idle"
                        /\ cli.error = "Please enter a prediction topic"))
    /\ [][(cli'.blank /\ cli' # cli) =>
             cli' = [cli EXCEPT !.error = "Please enter a prediction topic",
                                !.blank = TRUE]]_vars

(* a blank topic is submitted after a prediction was received: the results   *)
(* and the completed stages stay                                             *)
C27_Witness ==
    /\ cli.blank /\ cli.results /\ ~cli.loading
    /\ cli.error = "Please enter a prediction topic"
    /\ \A k \in 1 .. Len(cli.steps) : cli.steps[k].status = "completed"

-----------------------------------------------------------------------------
(* C28: whenever handleSubmit has set loading to true, loading becomes false *)
(* again (the timers fire and the request settles), when the prediction is   *)
(* received and when it fails; once it is false again, results is set only   *)
(* if the prediction was received, and then no error is shown, and an error  *)
(* of the submission is shown only if it failed, and then results is null.   *)
C28_Lifecycle ==
    /\ cli.loading ~> ~cli.loading
    /\ []((~cli.loading /\ ~cli.blank) =>
            /\ cli.results => (cli.resolved /\ cli.error = "")
            /\ cli.error # "" => (~cli.results /\ ~cli.resolved /\ cli.error = cli.rejected))
    /\ [][(cli.loading /\ ~cli'.loading) =>
             (cli'.results <=> cli'.resolved) /\ (cli'.error # "" <=> ~cli'.resolved)]_vars

(* a submission succeeded after an earlier one failed *)
C28_Witness ==
    /\ ~cli.loading /\ cli.results /\ cli.resolved /\ cli.error = ""
    /\ cli.sent >= 2

-----------------------------------------------------------------------------
(* C29 as stated: in the DeepSeek snapshot with DEEPSEEK_API_KEY unset or    *)
(* the placeholder, a POST /api/predict with a topic, admitted by the        *)
(* limiter, of which a completion call failed is still answered 200 (from    *)
(* the mock reply).                                                          *)
C29_Original ==
    \A r \in ReqIds :
        (/\ snapshot = "deepseek"
         /\ env["DEEPSEEK_API_KEY"] \in {"unset", "placeholder"}
         /\ req[r].route = "predict" /\ req[r].field = "text"
         /\ req[r].callFailed /\ req[r].pc = "done") => req[r].status = 200

(* with the placeholder key the failed call is replaced by the mock reply    *)
(* and the request is answered 200                                           *)
C29_Witness ==
    \E r \in ReqIds :
        /\ snapshot = "deepseek" /\ env["DEEPSEEK_API_KEY"] = "placeholder"
        /\ req[r].route = "predict" /\ req[r].callFailed /\ req[r].mock
        /\ req[r].pc = "done" /\ req[r].status = 200

(* C30: in SpeechInputField at most one delayed start (the 300 ms timer) is  *)
(* pending at any time, handleStopListening leaves none pending, and        *)
(* SpeechRecognition.startListening is never invoked after a stop unless a  *)
(* new start was requested after that stop.                                 *)
C30_DelayedStart ==
    LET pending == sp.orphans + (IF sp.startTimeoutRef = "live" THEN 1 ELSE 0)
    IN  /\ pending <= 1
        /\ sp.stopped => pending = 0
        /\ ~sp.late

(* a start timer has fired, and later a stop click cancelled a pending one *)
C30_Witness ==
    /\ sp.fired
    /\ sp.op = "stop" /\ sp.cancelled
    /\ sp.startTimeoutRef = "null" /\ sp.orphans = 0

====
